---- MODULE Spec2Model ----
(***************************************************************************)
(* A model of oobabot's response-decision and prompt-assembly pipeline      *)
(* (src/src/oobabot/discord_bot.py): RepetitionTracker, the history window  *)
(* and the prompt of PromptGenerator, the reply policy of DiscordBot, its   *)
(* response cycles, on_message with its image task, and sanitize_string.    *)
(*                                                                         *)
(* Strings are sequences of one-character strings, so that strip(),        *)
(* lower(), regular-expression search and len() are computed, not assumed. *)
(* Probabilities are in percent (0.95 is 95) and a random.random() sample   *)
(* is an integer percent in 0..99.                                          *)
(***************************************************************************)
EXTENDS Integers, Sequences, FiniteSets, TLC

VARIABLES
    \* ---- RepetitionTracker and the platform's channels
    repetition_threshold,   \* RepetitionTracker.repetition_threshold
    repetition_count,       \* RepetitionTracker.repetition_count: a dict
    channel_messages,       \* the platform: each channel's messages, oldest first
    next_id,                \* the platform: the id the next message gets
    logged,                 \* history: the messages passed to log_message, per channel
    triggered,              \* history: channels where should_throttle answered True
    built,                  \* the channel the last prompt was built for, or "None"
    fetched,                \* the history stream that cycle fetched, newest first
    repeated_id,            \* send_response's local repeated_id
    prompt_history,         \* what generate_history returned to that cycle
    \* ---- PromptGenerator
    persona,                \* PromptGenerator.persona
    generator,              \* "none" before PromptGenerator.__init__, "built" after
                            \* it, or the exception it raised
    max_history_chars,      \* PromptGenerator.max_history_chars, NoneId while unset
    photo_requested,        \* generate's argument photo_requested
    discard_log,            \* the num_discarded_lines generate_history logged
    prompt,                 \* what generate returned
    \* ---- DiscordBot's response cycles
    cycles,                 \* each on_message task: where it is and what it did
    stats,                  \* DiscordBot.average_stats: its counters
    \* ---- DiscordBot's reply policy
    ignore_dms,             \* DiscordBot.ignore_dms
    now,                    \* time.time(), in model ticks
    channel_last_direct_response,   \* DiscordBot.channel_last_direct_response: a dict
    stable_diffusion_client,    \* DiscordBot.stable_diffusion_client, or "None"
    ev,                     \* the last evaluation of should_reply_to_message
    \* ---- sanitize_string
    raw_text,               \* the argument of sanitize_string
    sanitized               \* what it returned, and what it returns for that

vars == <<repetition_threshold, repetition_count, channel_messages, next_id,
          logged, triggered, built, fetched, repeated_id, prompt_history,
          persona, generator, max_history_chars, photo_requested, discard_log,
          prompt, cycles, stats,
          ignore_dms, now, channel_last_direct_response,
          stable_diffusion_client, ev, raw_text, sanitized>>

trackerVars == <<repetition_threshold, repetition_count, channel_messages, next_id,
                 logged, triggered, built, fetched, repeated_id, prompt_history>>

promptVars == <<persona, generator, max_history_chars, photo_requested,
                discard_log, prompt>>

cycleVars == <<cycles, stats>>

policyVars == <<ignore_dms, now, channel_last_direct_response,
                stable_diffusion_client, ev>>

sanitizeVars == <<raw_text, sanitized>>

-----------------------------------------------------------------------------
(* Bounds of the model.                                                     *)

\* messages the platform hands out ids for (caps the repetition counters)
MaxMsgs == 3
\* the repetition thresholds tried: 1..MaxThreshold
MaxThreshold == 2
\* channel.history(limit=DISCORD_HISTORY_LINES_TO_SUPPLY)
HistoryLimit == 3
\* the clock runs from 0 to MaxTime ticks
MaxTime == 4
\* the strings given to sanitize_string have at most MaxLen characters
MaxLen == 3

-----------------------------------------------------------------------------
(* Strings.                                                                 *)

\* Python's None where a channel or a name is expected
None == "None"
\* Python's None where an `int | None` is expected (message ids are positive)
NoneId == 0 - 1

UpperCase == <<"A", "B", "C", "D", "E", "F", "G", "H", "I", "J", "K", "L", "M",
               "N", "O", "P", "Q", "R", "S", "T", "U", "V", "W", "X", "Y", "Z">>
LowerCase == <<"a", "b", "c", "d", "e", "f", "g", "h", "i", "j", "k", "l", "m",
               "n", "o", "p", "q", "r", "s", "t", "u", "v", "w", "x", "y", "z">>
Digits == {"0", "1", "2", "3", "4", "5", "6", "7", "8", "9"}

Range(s) == {s[i] : i \in DOMAIN s}

\* str.lower() on one character
LowerChar(ch) ==
    IF \E i \in DOMAIN UpperCase : UpperCase[i] = ch
    THEN LowerCase[CHOOSE i \in DOMAIN UpperCase : UpperCase[i] = ch]
    ELSE ch

\* str.lower()
lower(s) == [i \in DOMAIN s |-> LowerChar(s[i])]

\* the characters str.strip() removes
Whitespace == {" ", "\n", "\r", "\t"}

\* str.strip(): drop the leading and the trailing whitespace
strip(s) ==
    LET keep == {i \in DOMAIN s : s[i] \notin Whitespace}
    IN  IF keep = {} THEN <<>>
        ELSE LET first == CHOOSE i \in keep : \A j \in keep : i <= j
                 last  == CHOOSE i \in keep : \A j \in keep : j <= i
             IN  SubSeq(s, first, last)

\* s[-1]
Last(s) == s[Len(s)]

\* `sub in s`
Contains(s, sub) ==
    \E i \in 1..(Len(s) - Len(sub) + 1) : SubSeq(s, i, i + Len(sub) - 1) = sub

\* s.endswith(suffix)
endswith(s, suffix) ==
    /\ Len(suffix) <= Len(s)
    /\ SubSeq(s, Len(s) - Len(suffix) + 1, Len(s)) = suffix

\* FORBIDDEN_CHARACTERS = r"[\n\r\t]"
FORBIDDEN_CHARACTERS == {"\n", "\r", "\t"}

RECURSIVE sanitize_string_collapsing(_)
sanitize_string_collapsing(raw_string) ==
    IF raw_string = <<>> THEN <<>>
    ELSE IF raw_string[1] \in FORBIDDEN_CHARACTERS
    THEN IF Len(raw_string) > 1 /\ raw_string[2] \in FORBIDDEN_CHARACTERS
         THEN sanitize_string_collapsing(Tail(raw_string))
         ELSE <<" ">> \o sanitize_string_collapsing(Tail(raw_string))
    ELSE <<raw_string[1]>> \o sanitize_string_collapsing(Tail(raw_string))

\* FORBIDDEN_CHARACTERS_PATTERN.sub(" ", raw_string)
sanitize_string(raw_string) ==
    [i \in DOMAIN raw_string |->
        IF raw_string[i] \in FORBIDDEN_CHARACTERS THEN " " ELSE raw_string[i]]

-----------------------------------------------------------------------------
(* The platform: channels, accounts, messages.                              *)

\* channel ids; DmChannel is a private channel (ChannelType.private, no guild)
DmChannel == "dm"
Channels == {"dm", "general"}

\* account ids: the bot's own (DiscordBot.ai_user_id after on_ready) and others
AiUserId == "ai"
AccountName(id) ==
    CASE id = "ai"  -> <<"r", "o">>
      [] id = "al"  -> <<"A", "l">>
      [] OTHER      -> <<"B", "\t">>

\* settings.ai_name
ai_name == <<"R", "o">>

\* the content of a message log_message is given: two texts with one canonical
\* form, another text, and a text whose canonical form is empty
BotContents == { <<"o", "k">>, <<" ", "O", "k">>, <<"n", "o">>, <<" ">> }

\* the marker of a logged image request
IMAGE_MARKER ==
    <<"t", "r", "i", "e", "d", " ", "t", "o", " ", "m", "a", "k", "e", " ",
      "a", "n", " ", "i", "m", "a", "g", "e", " ", "w", "i", "t", "h", " ",
      "t", "h", "e", " ", "p", "r", "o", "m", "p", "t">>

\* what other accounts post
UserContents == { <<"h", "i", "\n", "x">>, <<" ">> }

-----------------------------------------------------------------------------
(* sanitize_message and PromptGenerator.generate_history.                   *)

sanitize_message(raw_message, in_guild) ==
    [ author       |-> sanitize_string(AccountName(raw_message.author_id)),
      message_text |-> strip(sanitize_string(raw_message.content)),
      server       |-> IF in_guild THEN <<"g">> ELSE <<"D", "M">> ]

\* template_store.format(DISCORD_PROMPT_HISTORY_LINE_TEMPLATE, ...):
\* "{DISCORD_USER_NAME} says:\n{DISCORD_USER_MESSAGE}\n\n"
format_history_line(author, message_text) ==
    author \o <<" ", "s", "a", "y", "s", ":", "\n">> \o message_text \o <<"\n", "\n">>

\* Python's truth value of an `int | None`
Truthy(x) == x # NoneId /\ x # 0

RECURSIVE Concat(_)
\* "".join(lines)
Concat(lines) ==
    IF lines = <<>> THEN <<>> ELSE Head(lines) \o Concat(Tail(lines))

\* list.reverse()
Reverse(s) == [i \in DOMAIN s |-> s[Len(s) + 1 - i]]

RECURSIVE history_scan_variant(_, _, _, _, _, _)
\* Variants of the loop of generate_history: "over" tests each line against the
\* whole budget, "inclusive" stops after the boundary message instead of
\* before it, "ge" leaves out a line that fills the budget exactly, "skip"
\* passes over a line that does not fit and goes on to older messages,
\* "marker" ignores the image marker in any author's message, "older" stops
\* at the first message that is not newer than the boundary.
history_scan_variant(variant, message_history, i, stop_before_message_id, prompt_len_remaining, history_lines) ==
    IF i > Len(message_history)
    THEN [lines |-> history_lines, discarded |-> NoneId]
    ELSE
    LET raw_message   == message_history[i]
        clean_message == sanitize_message(raw_message, TRUE)
        own           == raw_message.author_id = AiUserId
        author        == IF own THEN ai_name ELSE clean_message.author
        line          == format_history_line(author, clean_message.message_text)
        at_boundary   == /\ Truthy(stop_before_message_id)
                         /\ IF variant = "older"
                            THEN raw_message.id <= stop_before_message_id
                            ELSE raw_message.id = stop_before_message_id
        skipped       == \/ /\ own \/ variant = "marker"
                            /\ Contains(clean_message.message_text, IMAGE_MARKER)
                         \/ clean_message.message_text = <<>>
        too_long      == CASE variant = "over" -> Len(line) > max_history_chars
                           [] variant = "ge"   -> Len(line) >= prompt_len_remaining
                           [] OTHER            -> Len(line) > prompt_len_remaining
    IN  IF at_boundary /\ variant # "inclusive"
        THEN [lines |-> history_lines, discarded |-> NoneId]
        ELSE IF skipped
        THEN IF at_boundary
             THEN [lines |-> history_lines, discarded |-> NoneId]
             ELSE history_scan_variant(variant, message_history, i + 1,
                                       stop_before_message_id,
                                       prompt_len_remaining, history_lines)
        ELSE IF too_long
        THEN IF variant = "skip"
             THEN history_scan_variant(variant, message_history, i + 1,
                                       stop_before_message_id,
                                       prompt_len_remaining, history_lines)
             ELSE [lines |-> history_lines,
                   discarded |-> HistoryLimit - Len(history_lines)]
        ELSE IF at_boundary
        THEN [lines |-> Append(history_lines, line), discarded |-> NoneId]
        ELSE history_scan_variant(variant, message_history, i + 1,
                                  stop_before_message_id,
                                  prompt_len_remaining - Len(line),
                                  Append(history_lines, line))

history_scan_over(message_history, i, stop_before_message_id, prompt_len_remaining, history_lines) ==
    history_scan_variant("over", message_history, i, stop_before_message_id,
                         prompt_len_remaining, history_lines)

history_scan_inclusive(message_history, i, stop_before_message_id, prompt_len_remaining, history_lines) ==
    history_scan_variant("inclusive", message_history, i, stop_before_message_id,
                         prompt_len_remaining, history_lines)

history_scan_ge(message_history, i, stop_before_message_id, prompt_len_remaining, history_lines) ==
    history_scan_variant("ge", message_history, i, stop_before_message_id,
                         prompt_len_remaining, history_lines)

history_scan_older(message_history, i, stop_before_message_id, prompt_len_remaining, history_lines) ==
    history_scan_variant("older", message_history, i, stop_before_message_id,
                         prompt_len_remaining, history_lines)

history_scan_marker(message_history, i, stop_before_message_id, prompt_len_remaining, history_lines) ==
    history_scan_variant("marker", message_history, i, stop_before_message_id,
                         prompt_len_remaining, history_lines)

history_scan_skip(message_history, i, stop_before_message_id, prompt_len_remaining, history_lines) ==
    history_scan_variant("skip", message_history, i, stop_before_message_id,
                         prompt_len_remaining, history_lines)

RECURSIVE history_scan(_, _, _, _, _)
\* The `async for` loop of generate_history from message i of message_history
\* (newest first) on, with the loop's locals prompt_len_remaining and
\* history_lines.  Returns the lines taken (newest first) and, when the loop
\* ran out of space, the number of discarded lines it logs.
history_scan(message_history, i, stop_before_message_id, prompt_len_remaining, history_lines) ==
    IF i > Len(message_history)
    THEN [lines |-> history_lines, discarded |-> NoneId]
    ELSE
    LET raw_message   == message_history[i]
        clean_message == sanitize_message(raw_message, TRUE)
        own           == raw_message.author_id = AiUserId
        author        == IF own THEN ai_name ELSE clean_message.author
        line          == format_history_line(author, clean_message.message_text)
    IN  IF Truthy(stop_before_message_id) /\ raw_message.id = stop_before_message_id
        THEN [lines |-> history_lines, discarded |-> NoneId]
        ELSE IF own /\ Contains(clean_message.message_text, IMAGE_MARKER)
        THEN history_scan(message_history, i + 1, stop_before_message_id,
                          prompt_len_remaining, history_lines)
        ELSE IF clean_message.message_text = <<>>
        THEN history_scan(message_history, i + 1, stop_before_message_id,
                          prompt_len_remaining, history_lines)
        ELSE IF Len(line) > prompt_len_remaining
        THEN [lines |-> history_lines,
              discarded |-> HistoryLimit - Len(history_lines)]
        ELSE history_scan(message_history, i + 1, stop_before_message_id,
                          prompt_len_remaining - Len(line),
                          Append(history_lines, line))

\* PromptGenerator.generate_history
generate_history(message_history, stop_before_message_id) ==
    Concat(Reverse(history_scan(message_history, 1, stop_before_message_id,
                                max_history_chars, <<>>).lines))

\* the num_discarded_lines generate_history logs in that call, NoneId when it
\* logs nothing
generate_history_log(message_history, stop_before_message_id) ==
    history_scan(message_history, 1, stop_before_message_id,
                 max_history_chars, <<>>).discarded

\* Settings.DISCORD_HISTORY_EST_CHARACTERS_PER_LINE
DISCORD_HISTORY_EST_CHARACTERS_PER_LINE == 10

\* PromptGenerator.REQUIRED_HISTORY_SIZE_CHARS
REQUIRED_HISTORY_SIZE_CHARS == HistoryLimit * DISCORD_HISTORY_EST_CHARACTERS_PER_LINE

\* Settings.OOBABOT_MAX_AI_TOKEN_SPACE
OOBABOT_MAX_AI_TOKEN_SPACE == 20

\* Settings.OOBABOT_EST_CHARACTERS_PER_TOKEN
OOBABOT_EST_CHARACTERS_PER_TOKEN == 4

\* init_history_available_chars' local est_chars_in_token_space
est_chars_in_token_space ==
    OOBABOT_MAX_AI_TOKEN_SPACE * OOBABOT_EST_CHARACTERS_PER_TOKEN

\* PromptGenerator.init_photo_request: self.photo_request_made, the template
\* DISCORD_PROMPT_PHOTO_COMING_TEMPLATE "{AI_NAME} draws\n"
photo_request_made == ai_name \o <<" ", "d", "r", "a", "w", "s", "\n">>

\* PromptGenerator.fill_in_prompt_template with self.persona = self_persona:
\* the template DISCORD_PROMPT_TEMPLATE
\* "{PERSONA}\n{MESSAGE_HISTORY}{PHOTO_REQUEST}{AI_NAME} says:\n"
fill_in_prompt_template(self_persona, message_history, photo_request) ==
    self_persona \o <<"\n">> \o message_history \o photo_request
        \o ai_name \o <<" ", "s", "a", "y", "s", ":", "\n">>

init_history_available_chars_no_photo(self_persona) ==
    LET possible_prompt == fill_in_prompt_template(self_persona, <<>>, <<>>)
        max_chars       == est_chars_in_token_space - Len(possible_prompt)
    IN  IF max_chars < REQUIRED_HISTORY_SIZE_CHARS
        THEN [raised |-> "AttributeError", max_history_chars |-> NoneId]
        ELSE [raised |-> None, max_history_chars |-> max_chars]

\* PromptGenerator.init_history_available_chars with self.persona =
\* self_persona: the exception that leaves it and the attribute it sets.  The
\* message of its ValueError is built from self.max_history_chars, which no
\* statement has assigned at that point, so that building the message raises
\* AttributeError and the ValueError is never constructed.
init_history_available_chars(self_persona) ==
    LET possible_prompt == fill_in_prompt_template(self_persona, <<>>, photo_request_made)
        max_chars       == est_chars_in_token_space - Len(possible_prompt)
    IN  IF max_chars < REQUIRED_HISTORY_SIZE_CHARS
        THEN [raised |-> "AttributeError", max_history_chars |-> NoneId]
        ELSE [raised |-> None, max_history_chars |-> max_chars]

\* PromptGenerator.generate
generate(message_history, photo_requested_now, throttle_message_id) ==
    fill_in_prompt_template(
        persona,
        generate_history(message_history, throttle_message_id),
        IF photo_requested_now THEN photo_request_made ELSE <<>>)

\* raw_message.channel.history(limit=DISCORD_HISTORY_LINES_TO_SUPPLY):
\* the newest messages of the channel, newest first
channel_history(channel_id) ==
    LET all == channel_messages[channel_id]
        n   == IF Len(all) < HistoryLimit THEN Len(all) ELSE HistoryLimit
    IN  [i \in 1..n |-> all[Len(all) + 1 - i]]

-----------------------------------------------------------------------------
(* RepetitionTracker.                                                       *)

\* RepetitionTracker.make_canonical
make_canonical(content) == lower(strip(content))

should_throttle_gt(count) == count > repetition_threshold

\* RepetitionTracker.should_throttle
should_throttle(count) == count >= repetition_threshold

get_throttle_message_id_count(channel_id) ==
    IF channel_id \in DOMAIN repetition_count
    THEN repetition_count[channel_id][3]
    ELSE NoneId

\* RepetitionTracker.get_throttle_message_id
get_throttle_message_id(channel_id) ==
    IF channel_id \in DOMAIN repetition_count
    THEN repetition_count[channel_id][2]
    ELSE NoneId

\* The entry log_message reads: repetition_count.get(channel_id, ("", 0, 0))
tracked(channel_id) ==
    IF channel_id \in DOMAIN repetition_count
    THEN repetition_count[channel_id]
    ELSE << <<>>, 0, 0 >>

log_entry_clearing(channel_id, response_message) ==
    LET sentence          == make_canonical(response_message.content)
        last_message      == tracked(channel_id)[1]
        count             == IF last_message = sentence
                             THEN tracked(channel_id)[3] + 1
                             ELSE 0
        throttle_id       == IF should_throttle(count)
                             THEN response_message.id
                             ELSE 0
    IN  <<sentence, throttle_id, count>>

log_entry_first_only(channel_id, response_message) ==
    LET sentence          == make_canonical(response_message.content)
        last_message      == tracked(channel_id)[1]
        count             == IF last_message = sentence
                             THEN tracked(channel_id)[3] + 1
                             ELSE 0
        throttle_id       == IF should_throttle(count) /\ tracked(channel_id)[2] = 0
                             THEN response_message.id
                             ELSE tracked(channel_id)[2]
    IN  <<sentence, throttle_id, count>>

\* The tuple log_message stores for channel_id
log_entry(channel_id, response_message) ==
    LET sentence          == make_canonical(response_message.content)
        last_message      == tracked(channel_id)[1]
        count             == IF last_message = sentence
                             THEN tracked(channel_id)[3] + 1
                             ELSE 0
        throttle_id       == IF should_throttle(count)
                             THEN response_message.id
                             ELSE tracked(channel_id)[2]
    IN  <<sentence, throttle_id, count>>

log_message_single(channel_id, response_message) ==
    [c \in {channel_id} |-> log_entry(channel_id, response_message)]

\* RepetitionTracker.log_message: the dict after the call
log_message(channel_id, response_message) ==
    [c \in DOMAIN repetition_count \cup {channel_id} |->
        IF c = channel_id
        THEN log_entry(channel_id, response_message)
        ELSE repetition_count[c]]

-----------------------------------------------------------------------------
(* Actions on the tracker and the channels.                                 *)

\* Another account posts to a channel.
UserPost(c, content) ==
    /\ next_id <= MaxMsgs
    /\ channel_messages' = [channel_messages EXCEPT ![c] =
           Append(@, [id |-> next_id, author_id |-> "al", content |-> content])]
    /\ next_id' = next_id + 1
    /\ UNCHANGED <<repetition_threshold, repetition_count, logged, triggered,
                   built, fetched, repeated_id, prompt_history>>
    /\ UNCHANGED promptVars
    /\ UNCHANGED policyVars
    /\ UNCHANGED sanitizeVars
    /\ UNCHANGED cycleVars

\* send_response sends one sentence and records it:
\*     response_message = await raw_message.channel.send(sentence)
\*     self.repetition_tracker.log_message(raw_message.channel.id, response_message)
BotSend(c, content) ==
    LET response_message ==
            [id |-> next_id, author_id |-> AiUserId, content |-> content]
    IN  /\ next_id <= MaxMsgs
        /\ channel_messages' = [channel_messages EXCEPT ![c] = Append(@, response_message)]
        /\ next_id' = next_id + 1
        /\ repetition_count' = log_message(c, response_message)
        /\ logged' = [logged EXCEPT ![c] = Append(@, response_message)]
        /\ triggered' = IF should_throttle(log_entry(c, response_message)[3])
                        THEN triggered \cup {c}
                        ELSE triggered
        /\ UNCHANGED <<repetition_threshold, built, fetched, repeated_id, prompt_history>>
        /\ UNCHANGED promptVars
        /\ UNCHANGED policyVars
        /\ UNCHANGED sanitizeVars
        /\ UNCHANGED cycleVars

\* send_response fetches the history, reads the throttle boundary and builds
\* its prompt (no image was requested).
BuildPrompt(c) ==
    /\ built' = c
    /\ fetched' = channel_history(c)
    /\ repeated_id' = get_throttle_message_id(c)
    /\ prompt_history' = generate_history(channel_history(c), get_throttle_message_id(c))
    /\ discard_log' = generate_history_log(channel_history(c), get_throttle_message_id(c))
    /\ photo_requested' = FALSE
    /\ prompt' = generate(channel_history(c), FALSE, get_throttle_message_id(c))
    /\ UNCHANGED <<repetition_threshold, repetition_count, channel_messages,
                   next_id, logged, triggered>>
    /\ UNCHANGED <<persona, generator, max_history_chars>>
    /\ UNCHANGED policyVars
    /\ UNCHANGED sanitizeVars
    /\ UNCHANGED cycleVars

\* RepetitionTracker.__init__ and empty channels; the threshold is the
\* constructor's repetition_threshold
TrackerStart(thresholds) ==
    /\ repetition_threshold \in thresholds
    /\ repetition_count = << >>
    /\ channel_messages = [c \in Channels |-> <<>>]
    /\ next_id = 1
    /\ logged = [c \in Channels |-> <<>>]
    /\ triggered = {}
    /\ built = None
    /\ fetched = <<>>
    /\ repeated_id = NoneId
    /\ prompt_history = <<>>

\* DiscordBot.__init__: the policy's state; ignore_dms is settings.ignore_dms
\* and stable_diffusion_client the constructor's argument
PolicyStart(dm_settings, clients) ==
    /\ ignore_dms \in dm_settings
    /\ now = 0
    /\ channel_last_direct_response = << >>
    /\ stable_diffusion_client \in clients
    /\ ev = [kind |-> "none"]
    /\ sanitized = [done |-> FALSE]

\* the on_message tasks of the model
Cycles == {1, 2}

\* no message has arrived: no task runs, and average_stats counts nothing
CyclesStart ==
    /\ cycles = [k \in Cycles |->
                   [pc |-> "idle", channel |-> None, offered |-> <<>>, pos |-> 0,
                    repeated_id |-> NoneId, sent |-> <<>>, recorded |-> <<>>,
                    outcome |-> None, photo_requested |-> FALSE,
                    image |-> "none", requests |-> 0, raised |-> None,
                    trigger |-> [id |-> 0, author_id |-> None, content |-> <<>>]]]
    /\ stats = [arrived |-> 0, success |-> 0, failure |-> 0]

\* a persona of n characters
PersonaOfLen(n) == [i \in 1..n |-> "p"]

\* how many characters of persona leave exactly the required history size
PersonaSlack ==
    est_chars_in_token_space
        - Len(fill_in_prompt_template(<<>>, <<>>, photo_request_made))
        - REQUIRED_HISTORY_SIZE_CHARS

\* before PromptGenerator.__init__, with settings.persona one of personas
PromptStart(personas) ==
    /\ persona \in personas
    /\ generator = "none"
    /\ max_history_chars = NoneId
    /\ photo_requested = FALSE
    /\ discard_log = NoneId
    /\ prompt = <<>>

\* after PromptGenerator.__init__ with the persona self_persona
PromptBuilt(self_persona) ==
    /\ persona = self_persona
    /\ generator = "built"
    /\ max_history_chars = init_history_available_chars(self_persona).max_history_chars
    /\ photo_requested = FALSE
    /\ discard_log = NoneId
    /\ prompt = <<>>

InitTracker ==
    /\ TrackerStart(1..MaxThreshold)
    /\ PolicyStart({FALSE}, {None})
    /\ PromptBuilt(PersonaOfLen(PersonaSlack))
    /\ CyclesStart
    /\ raw_text = <<>>

NextTracker ==
    \/ \E c \in Channels, content \in UserContents : UserPost(c, content)
    \/ \E c \in Channels, content \in BotContents : BotSend(c, content)
    \/ \E c \in Channels : BuildPrompt(c)

SpecTracker == InitTracker /\ [][NextTracker]_vars

-----------------------------------------------------------------------------
(* DiscordBot's reply policy.                                               *)

\* settings.wakewords
wakewords == { <<"b", "o", "t">> }

\* Settings.DISCORD_TIME_VS_RESPONSE_CHANCE: (seconds, chance) pairs, here in
\* ticks and percent
DISCORD_TIME_VS_RESPONSE_CHANCE == << <<1, 95>>, <<2, 70>>, <<3, 20>> >>

\* Settings.DISCORD_INTERROBANG_BONUS, in percent
DISCORD_INTERROBANG_BONUS == 30

\* DiscordBot.discard_last_response_after_seconds:
\* max(time for time, _ in Settings.DISCORD_TIME_VS_RESPONSE_CHANCE)
discard_last_response_after_seconds ==
    LET times == {DISCORD_TIME_VS_RESPONSE_CHANCE[i][1] :
                     i \in DOMAIN DISCORD_TIME_VS_RESPONSE_CHANCE}
    IN  CHOOSE t \in times : \A u \in times : u <= t

\* the regular expression class \w
WordChars == Range(UpperCase) \cup Range(LowerCase) \cup Digits \cup {"_"}

IsWordChar(ch) == ch \in WordChars

\* whether position k of s holds a word character (False outside the string)
WordAt(s, k) == k \in DOMAIN s /\ IsWordChar(s[k])

\* the regular expression assertion \b just before position p of s
WordBoundary(s, p) == WordAt(s, p - 1) # WordAt(s, p)

wakeword_search_case(wakeword, content) ==
    \E i \in 1..(Len(content) - Len(wakeword) + 1) :
        /\ SubSeq(content, i, i + Len(wakeword) - 1) = wakeword
        /\ WordBoundary(content, i)
        /\ WordBoundary(content, i + Len(wakeword))

wakeword_search_anywhere(wakeword, content) ==
    Contains(lower(content), lower(wakeword))

\* re.compile(rf"\b{wakeword}\b", re.IGNORECASE).search(content)
wakeword_search(wakeword, content) ==
    \E i \in 1..(Len(content) - Len(wakeword) + 1) :
        /\ lower(SubSeq(content, i, i + Len(wakeword) - 1)) = lower(wakeword)
        /\ WordBoundary(content, i)
        /\ WordBoundary(content, i + Len(wakeword))

should_send_direct_response_no_dm(message) ==
    IF \E wakeword \in wakewords : wakeword_search(wakeword, message.content)
    THEN TRUE
    ELSE AiUserId \in message.mentions

\* DiscordBot.should_send_direct_response
should_send_direct_response(message) ==
    IF message.channel = DmChannel
    THEN ~ignore_dms
    ELSE IF \E wakeword \in wakewords : wakeword_search(wakeword, message.content)
    THEN TRUE
    ELSE AiUserId \in message.mentions

RECURSIVE chance_lookup_le(_, _)
chance_lookup_le(i, time_since_last_send) ==
    IF i > Len(DISCORD_TIME_VS_RESPONSE_CHANCE) THEN 0
    ELSE IF time_since_last_send <= DISCORD_TIME_VS_RESPONSE_CHANCE[i][1]
    THEN DISCORD_TIME_VS_RESPONSE_CHANCE[i][2]
    ELSE chance_lookup_le(i + 1, time_since_last_send)

RECURSIVE chance_lookup(_, _)
\* the loop over DISCORD_TIME_VS_RESPONSE_CHANCE from entry i on:
\*     if time_since_last_send < duration: response_chance = chance; break
chance_lookup(i, time_since_last_send) ==
    IF i > Len(DISCORD_TIME_VS_RESPONSE_CHANCE) THEN 0
    ELSE IF time_since_last_send < DISCORD_TIME_VS_RESPONSE_CHANCE[i][1]
    THEN DISCORD_TIME_VS_RESPONSE_CHANCE[i][2]
    ELSE chance_lookup(i + 1, time_since_last_send)

\* response_chance of should_send_unsolicited_response, for a channel that is
\* in `last`
response_chance(message, last) ==
    LET time_since_last_send == message.created_at - last[message.channel]
        base   == chance_lookup(1, time_since_last_send)
        asked  == IF endswith(message.content, <<"?">>)
                  THEN base + DISCORD_INTERROBANG_BONUS ELSE base
    IN  IF endswith(message.content, <<"!">>)
        THEN asked + DISCORD_INTERROBANG_BONUS ELSE asked

\* DiscordBot.should_send_unsolicited_response, with the value random.random()
\* returns if it is called: the answer and whether the sample was drawn
should_send_unsolicited_response(message, last, sample) ==
    IF message.channel \notin DOMAIN last
    THEN [respond |-> FALSE, drawn |-> FALSE]
    ELSE [respond |-> sample < response_chance(message, last), drawn |-> TRUE]

purge_nothing(last) == last

\* DiscordBot.purge_outdated_response_times: the dict after the call
purge_outdated_response_times(last) ==
    LET oldest_time_to_keep == now - discard_last_response_after_seconds
        kept == {c \in DOMAIN last : last[c] >= oldest_time_to_keep}
    IN  [c \in kept |-> last[c]]

\* no sample drawn
NoSample == 0 - 1

author_is_self_never(message) == FALSE

\* self.user and message.author.id == self.user.id (self.user is set once the
\* client is connected, which it is when a message arrives)
author_is_self(message) == message.author_id = AiUserId

mentions_others_never(message) == FALSE

\* `if message.mentions:` after the direct checks
mentions_others(message) == message.mentions # {}

record_direct_response_created_at(last, message) ==
    [c \in DOMAIN last \cup {message.channel} |->
        IF c = message.channel THEN message.created_at ELSE last[c]]

\* a store that would stamp every conversation it knows with the current time
record_direct_response_all(last, message) ==
    [c \in DOMAIN last \cup {message.channel} |-> now]

\* self.channel_last_direct_response[message.channel.id] = time.time()
\* (channel ids are positive, so `if message.channel.id:` holds)
record_direct_response(last, message) ==
    [c \in DOMAIN last \cup {message.channel} |->
        IF c = message.channel THEN now ELSE last[c]]

\* a policy that would take an unsolicited response for a direct one and
\* store its time as well
should_reply_to_message_refreshing(message, sample) ==
    LET last == channel_last_direct_response
        out(respond, dict, steps, drawn) ==
            [respond |-> respond, last |-> dict, steps |-> steps,
             sample |-> IF drawn THEN sample ELSE NoSample]
    IN  IF message.author_bot
        THEN out(FALSE, last, <<"bot">>, FALSE)
        ELSE IF author_is_self(message)
        THEN out(FALSE, last, <<"bot", "self">>, FALSE)
        ELSE IF should_send_direct_response(message)
        THEN out(TRUE, record_direct_response(last, message),
                 <<"bot", "self", "direct">>, FALSE)
        ELSE IF mentions_others(message)
        THEN out(FALSE, last, <<"bot", "self", "direct", "mentions">>, FALSE)
        ELSE IF strip(message.content) = <<>>
        THEN out(FALSE, last, <<"bot", "self", "direct", "mentions", "empty">>, FALSE)
        ELSE LET purged == purge_outdated_response_times(last)
                 u      == should_send_unsolicited_response(message, purged, sample)
             IN  out(u.respond,
                     IF u.respond THEN record_direct_response(purged, message)
                                  ELSE purged,
                     <<"bot", "self", "direct", "mentions", "empty", "purge",
                       "unsolicited">>,
                     u.drawn)

\* DiscordBot.should_reply_to_message: the answer, the dict it leaves, the
\* checks it went through and the sample it drew
should_reply_to_message(message, sample) ==
    LET last == channel_last_direct_response
        out(respond, dict, steps, drawn) ==
            [respond |-> respond, last |-> dict, steps |-> steps,
             sample |-> IF drawn THEN sample ELSE NoSample]
    IN  IF message.author_bot
        THEN out(FALSE, last, <<"bot">>, FALSE)
        ELSE IF author_is_self(message)
        THEN out(FALSE, last, <<"bot", "self">>, FALSE)
        ELSE IF should_send_direct_response(message)
        THEN out(TRUE, record_direct_response(last, message),
                 <<"bot", "self", "direct">>, FALSE)
        ELSE IF mentions_others(message)
        THEN out(FALSE, last, <<"bot", "self", "direct", "mentions">>, FALSE)
        ELSE IF strip(message.content) = <<>>
        THEN out(FALSE, last, <<"bot", "self", "direct", "mentions", "empty">>, FALSE)
        ELSE LET purged == purge_outdated_response_times(last)
                 u      == should_send_unsolicited_response(message, purged, sample)
             IN  out(u.respond, purged,
                     <<"bot", "self", "direct", "mentions", "empty", "purge",
                       "unsolicited">>,
                     u.drawn)

-----------------------------------------------------------------------------
(* Actions on the policy.                                                   *)

\* the authors of incoming messages: another user, another bot, the bot's own
\* account under a bot token, and under a user token
Authors == { [bot |-> FALSE, id |-> "al"], [bot |-> TRUE, id |-> "bo"],
             [bot |-> TRUE, id |-> "ai"], [bot |-> FALSE, id |-> "ai"] }

\* message.mentions, as account ids
MentionSets == { {}, {"ai"}, {"al"}, {"ai", "al"} }

\* message.content
Contents == { <<"h", "i">>, <<"h", "i", "?">>, <<"h", "i", "!">>, <<>>, <<" ">>,
              <<"a", " ", "B", "o", "t", "?">>, <<"r", "o", "b", "o", "t", "s">> }

\* how long before it is handled a message was created (the platform's clock
\* may be ahead of time.time())
Lags == {0 - 1, 0, 1}

\* the values of random.random() tried, in percent
Samples == {0, 19, 20, 49, 50, 69, 70, 94, 95, 99}

Messages ==
    { [author_bot |-> a.bot, author_id |-> a.id, channel |-> c, content |-> t,
       mentions |-> m, created_at |-> now - lag] :
         a \in Authors, c \in Channels, t \in Contents, m \in MentionSets,
         lag \in Lags }

\* time passes
Tick ==
    /\ ev.kind = "none"
    /\ now < MaxTime
    /\ now' = now + 1
    /\ UNCHANGED <<ignore_dms, channel_last_direct_response,
                   stable_diffusion_client, ev>>
    /\ UNCHANGED sanitizeVars
    /\ UNCHANGED trackerVars
    /\ UNCHANGED promptVars
    /\ UNCHANGED cycleVars

\* on_message evaluates should_reply_to_message(raw_message)
ShouldReply(message, sample) ==
    LET r == should_reply_to_message(message, sample)
    IN  /\ ev.kind = "none"
        /\ channel_last_direct_response' = r.last
        /\ ev' = [kind |-> "eval", message |-> message, respond |-> r.respond,
                  steps |-> r.steps, sample |-> r.sample,
                  before |-> channel_last_direct_response, at |-> now]
        /\ UNCHANGED <<ignore_dms, now, stable_diffusion_client>>
        /\ UNCHANGED sanitizeVars
        /\ UNCHANGED trackerVars
        /\ UNCHANGED promptVars
        /\ UNCHANGED cycleVars

\* the evaluation has returned to on_message; the record of it is dropped
Return ==
    /\ ev.kind = "eval"
    /\ ev' = [kind |-> "none"]
    /\ UNCHANGED <<ignore_dms, now, channel_last_direct_response,
                   stable_diffusion_client>>
    /\ UNCHANGED sanitizeVars
    /\ UNCHANGED trackerVars
    /\ UNCHANGED promptVars
    /\ UNCHANGED cycleVars

InitPolicy ==
    /\ TrackerStart({1})
    /\ PolicyStart(BOOLEAN, {None})
    /\ PromptBuilt(PersonaOfLen(PersonaSlack))
    /\ CyclesStart
    /\ raw_text = <<>>

\* the values random.random() can return to the evaluation of message: any
\* sample when the evaluation calls it, and none to choose when it does not
SamplesFor(message) ==
    IF should_reply_to_message(message, 0).sample = NoSample
    THEN {NoSample}
    ELSE Samples

NextPolicy ==
    \/ Tick
    \/ Return
    \/ /\ ev.kind = "none"
       /\ \E message \in Messages :
             \E sample \in SamplesFor(message) : ShouldReply(message, sample)

SpecPolicy == InitPolicy /\ [][NextPolicy]_vars

-----------------------------------------------------------------------------
(* Actions on the prompt generator.                                         *)

\* settings.persona: none, the longest that leaves the required history size,
\* and one character more
Personas ==
    { PersonaOfLen(n) : n \in {0, PersonaSlack, PersonaSlack + 1} \cap Nat }

\* the messages of a history stream: the bot's own sentence, another account's
\* text with a line break, a blank text, and the log of an image request by
\* the bot and quoted by another account
StreamMessages ==
    { [author_id |-> AiUserId, content |-> <<"o", "k">>],
      [author_id |-> "bo", content |-> <<"h", "i", "\n", "x">>],
      [author_id |-> "al", content |-> <<" ">>],
      [author_id |-> AiUserId, content |-> <<"I", " ">> \o IMAGE_MARKER],
      [author_id |-> "al", content |-> IMAGE_MARKER] }

\* how many older messages of the channel lie outside a fetched window of n
\* messages: none when the fetch returned fewer than its limit, one when the
\* window is full
Older(n) == IF n = HistoryLimit THEN 1 ELSE 0

\* what channel.history(limit=DISCORD_HISTORY_LINES_TO_SUPPLY) yields: at most
\* the limit of messages, newest first, so with descending ids, the oldest of
\* them coming after the messages that are outside the window
Streams ==
    { [i \in DOMAIN f |->
          [id |-> Older(Len(f)) + Len(f) + 1 - i, author_id |-> f[i].author_id,
           content |-> f[i].content]] :
        f \in UNION { [1..n -> StreamMessages] : n \in 0..HistoryLimit } }

\* what get_throttle_message_id yields: None, the default 0, or a message id,
\* of the stream or not
Boundaries == {NoneId, 0} \cup (1..(HistoryLimit + 1))

\* PromptGenerator.__init__
Construct ==
    LET r == init_history_available_chars(persona)
    IN  /\ generator = "none"
        /\ generator' = IF r.raised = None THEN "built" ELSE r.raised
        /\ max_history_chars' = r.max_history_chars
        /\ UNCHANGED <<persona, photo_requested, discard_log, prompt>>
        /\ UNCHANGED trackerVars
        /\ UNCHANGED policyVars
        /\ UNCHANGED sanitizeVars
        /\ UNCHANGED cycleVars

\* PromptGenerator.generate on a generator that exists
Generate(message_history, photo_requested_now, throttle_message_id) ==
    /\ generator = "built"
    /\ built = None
    /\ built' = "general"
    /\ fetched' = message_history
    /\ repeated_id' = throttle_message_id
    /\ photo_requested' = photo_requested_now
    /\ prompt_history' = generate_history(message_history, throttle_message_id)
    /\ discard_log' = generate_history_log(message_history, throttle_message_id)
    /\ prompt' = generate(message_history, photo_requested_now, throttle_message_id)
    /\ UNCHANGED <<persona, generator, max_history_chars>>
    /\ UNCHANGED <<repetition_threshold, repetition_count, channel_messages,
                   next_id, logged, triggered>>
    /\ UNCHANGED policyVars
    /\ UNCHANGED sanitizeVars
    /\ UNCHANGED cycleVars

InitPrompt ==
    /\ TrackerStart({1})
    /\ PolicyStart({FALSE}, {None})
    /\ PromptStart(Personas)
    /\ CyclesStart
    /\ raw_text = <<>>

NextPrompt ==
    \/ Construct
    \/ \E message_history \in Streams, photo_requested_now \in BOOLEAN,
          throttle_message_id \in Boundaries :
            Generate(message_history, photo_requested_now, throttle_message_id)

SpecPrompt == InitPrompt /\ [][NextPrompt]_vars

-----------------------------------------------------------------------------
(* DiscordBot's response cycles: on_message, once should_reply_to_message   *)
(* has answered True, and send_response.  A task runs from one await to the  *)
(* next in one step.                                                        *)

\* the sentences a stream holds at most
MaxSentences == 2

\* f"{self.ai_name} says:"
own_label == ai_name \o <<" ", "s", "a", "y", "s", ":">>

\* what request_by_sentence yields: a plain sentence, the AI's own role label,
\* and another participant's
Sentences == { <<"o", "k">>, own_label, <<"A", "l", " ", "s", "a", "y", "s", ":">> }

SentenceStreams == UNION { [1..n -> Sentences] : n \in 0..MaxSentences }

filter_sentence_no_abort(sentence) ==
    IF sentence = own_label THEN "continue" ELSE "send"

filter_sentence_abort_first(sentence) ==
    IF endswith(sentence, <<" ", "s", "a", "y", "s", ":">>)
    THEN "break"
    ELSE IF sentence = own_label
    THEN "continue"
    ELSE "send"

\* what the loop of send_response does with a sentence: `continue` on the AI's
\* own label, `break` on another sentence that ends with " says:", and
\* otherwise the send
filter_sentence(sentence) ==
    IF sentence = own_label
    THEN "continue"
    ELSE IF endswith(sentence, <<" ", "s", "a", "y", "s", ":">>)
    THEN "break"
    ELSE "send"

\* the task's state changes to pc, with the given outcome
Moved(k, pc, outcome) ==
    [cycles EXCEPT ![k] = [@ EXCEPT !.pc = pc, !.outcome = outcome]]

except_clause_none(stage) ==
    [log |-> "uncaught", counted |-> FALSE]

\* the `except Exception` clause that catches an exception raised at a stage
\* of on_message, by what it logs and whether it calls log_response_failure:
\* on_message's first try holds should_reply_to_message, its second holds the
\* typing context, the image request and send_response, whose own try holds
\* only the loop over the sentences; wrapped_send_image holds send_image
except_clause(stage) ==
    IF stage = "policy"
    THEN [log |-> "Exception while checking message", counted |-> FALSE]
    ELSE IF stage = "image"
    THEN [log |-> "Exception while sending image", counted |-> FALSE]
    ELSE IF stage \in {"stream", "send"}
    THEN [log |-> "Error", counted |-> TRUE]
    ELSE [log |-> "Exception while sending response", counted |-> FALSE]

\* an exception raised at a stage of task k ends the task in its handler
Raised(k, stage) ==
    [cycles EXCEPT ![k] =
        [@ EXCEPT !.pc = "done", !.raised = except_clause(stage).log,
                  !.outcome = IF except_clause(stage).counted
                              THEN "failure" ELSE None]]

\* AggregateResponseStats after the handler of that stage
Counted(stage) ==
    IF except_clause(stage).counted
    THEN [stats EXCEPT !.failure = @ + 1]
    ELSE stats

\* A message arrives in channel c and should_reply_to_message answers True:
\* send_response runs up to its first await, reading the throttle boundary;
\* offered is what the backend will yield to this task.
StartCycle(k, c, offered) ==
    /\ cycles[k].pc = "idle"
    /\ \A j \in Cycles : j < k => cycles[j].pc # "idle"
    /\ channel_messages' = [channel_messages EXCEPT ![c] =
           Append(@, [id |-> next_id, author_id |-> "al", content |-> <<"h", "i">>])]
    /\ next_id' = next_id + 1
    /\ cycles' = [cycles EXCEPT ![k] =
           [@ EXCEPT !.pc = "history", !.channel = c, !.offered = offered,
                     !.repeated_id = get_throttle_message_id(c),
                     !.trigger = [id |-> next_id, author_id |-> "al",
                                  content |-> <<"h", "i">>]]]
    /\ UNCHANGED <<repetition_threshold, repetition_count, logged, triggered,
                   built, fetched, repeated_id, prompt_history, stats>>
    /\ UNCHANGED promptVars
    /\ UNCHANGED policyVars
    /\ UNCHANGED sanitizeVars

\* a send_response that would ask the tracker for the boundary only when the
\* history is consumed, after the await
FetchHistoryRereading(k) ==
    LET cy == cycles[k]
        boundary == get_throttle_message_id(cy.channel)
    IN  /\ cy.pc = "history"
        /\ built' = cy.channel
        /\ fetched' = channel_history(cy.channel)
        /\ repeated_id' = boundary
        /\ prompt_history' = generate_history(channel_history(cy.channel), boundary)
        /\ discard_log' = generate_history_log(channel_history(cy.channel), boundary)
        /\ photo_requested' = cy.photo_requested
        /\ prompt' = generate(channel_history(cy.channel), cy.photo_requested, boundary)
        /\ stats' = [stats EXCEPT !.arrived = @ + 1]
        /\ cycles' = [cycles EXCEPT ![k] =
               [@ EXCEPT !.pc = "stream", !.requests = @ + 1]]
        /\ UNCHANGED <<repetition_threshold, repetition_count, channel_messages,
                       next_id, logged, triggered>>
        /\ UNCHANGED <<persona, generator, max_history_chars>>
        /\ UNCHANGED policyVars
        /\ UNCHANGED sanitizeVars

\* generate has consumed the history: the prompt is built, log_request_arrived
\* counts it and the request to the backend begins
FetchHistory(k) ==
    LET cy == cycles[k]
    IN  /\ cy.pc = "history"
        /\ built' = cy.channel
        /\ fetched' = channel_history(cy.channel)
        /\ repeated_id' = cy.repeated_id
        /\ prompt_history' = generate_history(channel_history(cy.channel), cy.repeated_id)
        /\ discard_log' = generate_history_log(channel_history(cy.channel), cy.repeated_id)
        /\ photo_requested' = cy.photo_requested
        /\ prompt' = generate(channel_history(cy.channel), cy.photo_requested,
                              cy.repeated_id)
        /\ stats' = [stats EXCEPT !.arrived = @ + 1]
        /\ cycles' = [cycles EXCEPT ![k] =
               [@ EXCEPT !.pc = "stream", !.requests = @ + 1]]
        /\ UNCHANGED <<repetition_threshold, repetition_count, channel_messages,
                       next_id, logged, triggered>>
        /\ UNCHANGED <<persona, generator, max_history_chars>>
        /\ UNCHANGED policyVars
        /\ UNCHANGED sanitizeVars

\* channel.history or generate raises: send_response is left before its try,
\* and before log_request_arrived
FetchError(k) ==
    /\ cycles[k].pc = "history"
    /\ cycles' = Raised(k, "history")
    /\ stats' = Counted("history")
    /\ UNCHANGED trackerVars
    /\ UNCHANGED promptVars
    /\ UNCHANGED policyVars
    /\ UNCHANGED sanitizeVars

\* the backend yields the next sentence and the loop filters it
Receive(k) ==
    LET cy       == cycles[k]
        sentence == cy.offered[cy.pos + 1]
        verdict  == filter_sentence(sentence)
    IN  /\ cy.pc = "stream"
        /\ cy.pos < Len(cy.offered)
        /\ cycles' = [cycles EXCEPT ![k] =
               [@ EXCEPT !.pos = @ + 1,
                         !.pc = CASE verdict = "continue" -> "stream"
                                  [] verdict = "break"    -> "done"
                                  [] OTHER                -> "sending",
                         !.outcome = IF verdict = "break" THEN "success" ELSE None]]
        /\ stats' = IF verdict = "break"
                    THEN [stats EXCEPT !.success = @ + 1]
                    ELSE stats
        /\ UNCHANGED trackerVars
        /\ UNCHANGED promptVars
        /\ UNCHANGED policyVars
        /\ UNCHANGED sanitizeVars

\* the stream is exhausted: log_response_success
StreamEnd(k) ==
    /\ cycles[k].pc = "stream"
    /\ cycles[k].pos = Len(cycles[k].offered)
    /\ cycles' = Moved(k, "done", "success")
    /\ stats' = [stats EXCEPT !.success = @ + 1]
    /\ UNCHANGED trackerVars
    /\ UNCHANGED promptVars
    /\ UNCHANGED policyVars
    /\ UNCHANGED sanitizeVars

StreamErrorRetry(k) ==
    /\ cycles[k].pc = "stream"
    /\ cycles' = [cycles EXCEPT ![k] =
           [@ EXCEPT !.raised = except_clause("stream").log, !.requests = @ + 1]]
    /\ UNCHANGED stats
    /\ UNCHANGED trackerVars
    /\ UNCHANGED promptVars
    /\ UNCHANGED policyVars
    /\ UNCHANGED sanitizeVars

\* the backend raises instead of yielding: log_response_failure
StreamError(k) ==
    /\ cycles[k].pc = "stream"
    /\ cycles' = Raised(k, "stream")
    /\ stats' = Counted("stream")
    /\ UNCHANGED trackerVars
    /\ UNCHANGED promptVars
    /\ UNCHANGED policyVars
    /\ UNCHANGED sanitizeVars

\* the platform takes the sentence of raw_message.channel.send(sentence)
Deliver(k) ==
    LET cy == cycles[k]
    IN  /\ cy.pc = "sending"
        /\ channel_messages' = [channel_messages EXCEPT ![cy.channel] =
               Append(@, [id |-> next_id, author_id |-> AiUserId,
                          content |-> cy.offered[cy.pos]])]
        /\ next_id' = next_id + 1
        /\ cycles' = [cycles EXCEPT ![k] =
               [@ EXCEPT !.pc = "sent",
                         !.sent = Append(@, [idx |-> cy.pos, id |-> next_id])]]
        /\ UNCHANGED <<repetition_threshold, repetition_count, logged, triggered,
                       built, fetched, repeated_id, prompt_history, stats>>
        /\ UNCHANGED promptVars
        /\ UNCHANGED policyVars
        /\ UNCHANGED sanitizeVars

\* raw_message.channel.send raises: log_response_failure
SendError(k) ==
    /\ cycles[k].pc = "sending"
    /\ cycles' = Raised(k, "send")
    /\ stats' = Counted("send")
    /\ UNCHANGED trackerVars
    /\ UNCHANGED promptVars
    /\ UNCHANGED policyVars
    /\ UNCHANGED sanitizeVars

ResumeWithoutLog(k) ==
    /\ cycles[k].pc = "sent"
    /\ cycles' = Moved(k, "stream", None)
    /\ UNCHANGED stats
    /\ UNCHANGED trackerVars
    /\ UNCHANGED promptVars
    /\ UNCHANGED policyVars
    /\ UNCHANGED sanitizeVars

\* the send has returned response_message: log_message records it and the loop
\* goes on to the next sentence
Resume(k) ==
    LET cy == cycles[k]
        response_message ==
            [id |-> Last(cy.sent).id, author_id |-> AiUserId,
             content |-> cy.offered[Last(cy.sent).idx]]
    IN  /\ cy.pc = "sent"
        /\ repetition_count' = log_message(cy.channel, response_message)
        /\ logged' = [logged EXCEPT ![cy.channel] = Append(@, response_message)]
        /\ triggered' = IF should_throttle(log_entry(cy.channel, response_message)[3])
                        THEN triggered \cup {cy.channel}
                        ELSE triggered
        /\ cycles' = [cycles EXCEPT ![k] =
               [@ EXCEPT !.pc = "stream", !.recorded = Append(@, Last(cy.sent))]]
        /\ UNCHANGED <<repetition_threshold, channel_messages, next_id,
                       built, fetched, repeated_id, prompt_history, stats>>
        /\ UNCHANGED promptVars
        /\ UNCHANGED policyVars
        /\ UNCHANGED sanitizeVars

InitCycle ==
    /\ TrackerStart({1})
    /\ PolicyStart({FALSE}, {None})
    /\ PromptBuilt(PersonaOfLen(PersonaSlack))
    /\ CyclesStart
    /\ raw_text = <<>>

NextCycle ==
    \/ \E k \in Cycles, c \in Channels, offered \in SentenceStreams :
          StartCycle(k, c, offered)
    \/ \E k \in Cycles : FetchHistory(k)
    \/ \E k \in Cycles : FetchError(k)
    \/ \E k \in Cycles : Receive(k)
    \/ \E k \in Cycles : StreamEnd(k)
    \/ \E k \in Cycles : StreamError(k)
    \/ \E k \in Cycles : Deliver(k)
    \/ \E k \in Cycles : SendError(k)
    \/ \E k \in Cycles : Resume(k)

SpecCycle == InitCycle /\ [][NextCycle]_vars

-----------------------------------------------------------------------------
(* DiscordBot.on_message as a whole: the reply policy, the image request    *)
(* and the response cycle of each inbound message.                          *)

\* photowords, in the order of self.photo_patterns
photowords ==
    << <<"d", "r", "a", "w", "i", "n", "g">>, <<"p", "h", "o", "t", "o">>,
       <<"p", "i", "c">>, <<"p", "i", "c", "t", "u", "r", "e">>,
       <<"i", "m", "a", "g", "e">>, <<"s", "k", "e", "t", "c", "h">> >>

\* where \bphotoword\b occurs in content, ignoring case
photoword_at(photoword, content) ==
    { i \in 1..(Len(content) - Len(photoword) + 1) :
        /\ lower(SubSeq(content, i, i + Len(photoword) - 1)) = photoword
        /\ WordBoundary(content, i)
        /\ WordBoundary(content, i + Len(photoword)) }

\* the first position from p on that [\s]* does not take
RECURSIVE skip_space(_, _)
skip_space(content, p) ==
    IF p <= Len(content) /\ content[p] \in Whitespace
    THEN skip_space(content, p + 1)
    ELSE p

\* the position after (of|with)? read at p, ignoring case
skip_of_with(content, p) ==
    IF lower(SubSeq(content, p, p + 1)) = <<"o", "f">> /\ p + 1 <= Len(content)
    THEN p + 2
    ELSE IF lower(SubSeq(content, p, p + 3)) = <<"w", "i", "t", "h">>
            /\ p + 3 <= Len(content)
    THEN p + 4
    ELSE p

\* the position after [:]? read at p
skip_colon(content, p) ==
    IF p <= Len(content) /\ content[p] = ":" THEN p + 1 ELSE p

\* photo_pattern.search(content).group(2) for the pattern
\* r"^.*\b" + photoword + r"\b[\s]*(of|with)?[\s]*[:]?(.*)$": the greedy ^.*
\* takes the last occurrence of the word
photo_pattern_group(photoword, content) ==
    LET at    == photoword_at(photoword, content)
        last  == CHOOSE i \in at : \A j \in at : j <= i
        start == skip_colon(content,
                     skip_space(content,
                         skip_of_with(content,
                             skip_space(content, last + Len(photoword)))))
    IN  SubSeq(content, start, Len(content))

\* DiscordBot.make_photo_prompt_from_message, from the i-th pattern on: the
\* group of the first pattern that matches, or no match (None)
RECURSIVE photo_prompt_from(_, _)
photo_prompt_from(i, content) ==
    IF i > Len(photowords)
    THEN [matched |-> FALSE, prompt |-> <<>>]
    ELSE IF photoword_at(photowords[i], sanitize_string(content)) # {}
    THEN [matched |-> TRUE,
          prompt |-> photo_pattern_group(photowords[i], sanitize_string(content))]
    ELSE photo_prompt_from(i + 1, content)

make_photo_prompt_from_message(raw_message) ==
    photo_prompt_from(1, raw_message.content)

\* lines 638-645 of on_message: whether an image is requested for raw_message,
\* which is then what request_picture_generation returns, True
photo_requested_for(raw_message) ==
    IF stable_diffusion_client # None
    THEN make_photo_prompt_from_message(raw_message).matched
    ELSE FALSE

\* regen_view.get_image_message_text(): the text posted with the image
image_message_text(raw_message) ==
    AccountName(raw_message.author_id) \o <<" ">> \o IMAGE_MARKER

\* an inbound message, created as it arrives
InboundFrom(author_id, channel, content, mentions) ==
    [author_bot |-> author_id = "bo", author_id |-> author_id, channel |-> channel,
     content |-> content, mentions |-> mentions, created_at |-> now]

\* the inbound messages: a user's question that mentions the bot, the same
\* asking for a picture, the question without a mention, the question in a
\* private channel, and another bot's mention
Inbound ==
    { InboundFrom("al", "general", <<"h", "i", "?">>, {"ai"}),
      InboundFrom("al", "general",
                  <<"a", " ", "P", "i", "c", " ", "o", "f", " ", "x">>, {"ai"}),
      InboundFrom("al", "general", <<"h", "i", "?">>, {}),
      InboundFrom("al", DmChannel, <<"h", "i", "?">>, {}),
      InboundFrom("bo", "general", <<"h", "i", "?">>, {"ai"}) }

\* the samples of random.random() tried for an inbound message
InboundSamples(message) == SamplesFor(message) \cap {NoSample, 0, 99}

\* what the backend yields to a task: one plain sentence
ReplyStreams == { << <<"o", "k">> >> }

\* raw_message as the platform stores it
Stored(message) ==
    [id |-> next_id, author_id |-> message.author_id, content |-> message.content]

\* time passes, as long as a message is still to arrive (nothing else reads
\* the clock)
Clock ==
    /\ now < MaxTime
    /\ \E k \in Cycles : cycles[k].pc = "idle"
    /\ now' = now + 1
    /\ UNCHANGED <<ignore_dms, channel_last_direct_response,
                   stable_diffusion_client, ev>>
    /\ UNCHANGED sanitizeVars
    /\ UNCHANGED trackerVars
    /\ UNCHANGED promptVars
    /\ UNCHANGED cycleVars

OnMessageSpawningOnDecline(k, message, sample, offered) ==
    LET r == should_reply_to_message(message, sample)
    IN  /\ cycles[k].pc = "idle"
        /\ \A j \in Cycles : j < k => cycles[j].pc # "idle"
        /\ channel_messages' = [channel_messages EXCEPT ![message.channel] =
               Append(@, Stored(message))]
        /\ next_id' = next_id + 1
        /\ channel_last_direct_response' = r.last
        /\ cycles' = [cycles EXCEPT ![k] =
               [@ EXCEPT !.pc = IF r.respond THEN "typing" ELSE "declined",
                         !.channel = message.channel, !.offered = offered,
                         !.image = "running",
                         !.trigger = Stored(message)]]
        /\ UNCHANGED <<repetition_threshold, repetition_count, logged, triggered,
                       built, fetched, repeated_id, prompt_history, stats>>
        /\ UNCHANGED <<ignore_dms, now, stable_diffusion_client, ev>>
        /\ UNCHANGED promptVars
        /\ UNCHANGED sanitizeVars

\* on_message up to its first await: should_reply_to_message answers; on False
\* the task returns, on True it enters channel.typing()
OnMessage(k, message, sample, offered) ==
    LET r == should_reply_to_message(message, sample)
    IN  /\ cycles[k].pc = "idle"
        /\ \A j \in Cycles : j < k => cycles[j].pc # "idle"
        /\ channel_messages' = [channel_messages EXCEPT ![message.channel] =
               Append(@, Stored(message))]
        /\ next_id' = next_id + 1
        /\ channel_last_direct_response' = r.last
        /\ cycles' = [cycles EXCEPT ![k] =
               [@ EXCEPT !.pc = IF r.respond THEN "typing" ELSE "declined",
                         !.channel = message.channel, !.offered = offered,
                         !.trigger = Stored(message)]]
        /\ UNCHANGED <<repetition_threshold, repetition_count, logged, triggered,
                       built, fetched, repeated_id, prompt_history, stats>>
        /\ UNCHANGED <<ignore_dms, now, stable_diffusion_client, ev>>
        /\ UNCHANGED promptVars
        /\ UNCHANGED sanitizeVars

\* should_reply_to_message raises: on_message's first handler logs and returns
PolicyError(k, message) ==
    /\ cycles[k].pc = "idle"
    /\ \A j \in Cycles : j < k => cycles[j].pc # "idle"
    /\ channel_messages' = [channel_messages EXCEPT ![message.channel] =
           Append(@, Stored(message))]
    /\ next_id' = next_id + 1
    /\ cycles' = [Raised(k, "policy") EXCEPT ![k].channel = message.channel,
                                             ![k].trigger = Stored(message)]
    /\ stats' = Counted("policy")
    /\ UNCHANGED <<repetition_threshold, repetition_count, logged, triggered,
                   built, fetched, repeated_id, prompt_history>>
    /\ UNCHANGED policyVars
    /\ UNCHANGED promptVars
    /\ UNCHANGED sanitizeVars

\* inside channel.typing(): the image request, which creates the detached task
\* wrapped_send_image and does not wait for it, then send_response up to its
\* first await, reading the throttle boundary
EnterTyping(k) ==
    LET cy == cycles[k]
    IN  /\ cy.pc = "typing"
        /\ cycles' = [cycles EXCEPT ![k] =
               [@ EXCEPT !.pc = "history",
                         !.photo_requested = photo_requested_for(cy.trigger),
                         !.image = IF photo_requested_for(cy.trigger)
                                   THEN "running" ELSE "none",
                         !.repeated_id = get_throttle_message_id(cy.channel)]]
        /\ UNCHANGED stats
        /\ UNCHANGED trackerVars
        /\ UNCHANGED promptVars
        /\ UNCHANGED policyVars
        /\ UNCHANGED sanitizeVars

\* channel.typing() raises: on_message's second handler logs
TypingError(k) ==
    /\ cycles[k].pc = "typing"
    /\ cycles' = Raised(k, "typing")
    /\ stats' = Counted("typing")
    /\ UNCHANGED trackerVars
    /\ UNCHANGED promptVars
    /\ UNCHANGED policyVars
    /\ UNCHANGED sanitizeVars

\* send_image: the image arrives and is posted with its text; log_message is
\* not called for it
ImageSent(k) ==
    LET cy == cycles[k]
    IN  /\ cy.image = "running"
        /\ channel_messages' = [channel_messages EXCEPT ![cy.channel] =
               Append(@, [id |-> next_id, author_id |-> AiUserId,
                          content |-> image_message_text(cy.trigger)])]
        /\ next_id' = next_id + 1
        /\ cycles' = [cycles EXCEPT ![k].image = "sent"]
        /\ UNCHANGED <<repetition_threshold, repetition_count, logged, triggered,
                       built, fetched, repeated_id, prompt_history, stats>>
        /\ UNCHANGED promptVars
        /\ UNCHANGED policyVars
        /\ UNCHANGED sanitizeVars

ImageErrorAborting(k) ==
    /\ cycles[k].image = "running"
    /\ cycles' = [Raised(k, "stream") EXCEPT ![k].image = except_clause("image").log]
    /\ stats' = Counted("stream")
    /\ UNCHANGED trackerVars
    /\ UNCHANGED promptVars
    /\ UNCHANGED policyVars
    /\ UNCHANGED sanitizeVars

\* the image backend or the send of the image raises: wrapped_send_image logs
\* the exception, and that is all
ImageError(k) ==
    /\ cycles[k].image = "running"
    /\ cycles' = [cycles EXCEPT ![k].image = except_clause("image").log]
    /\ stats' = Counted("image")
    /\ UNCHANGED trackerVars
    /\ UNCHANGED promptVars
    /\ UNCHANGED policyVars
    /\ UNCHANGED sanitizeVars

InitMessage ==
    /\ TrackerStart({1})
    /\ PolicyStart({FALSE}, {None, "sd"})
    /\ PromptBuilt(PersonaOfLen(PersonaSlack))
    /\ CyclesStart
    /\ raw_text = <<>>

NextMessage ==
    \/ Clock
    \/ \E k \in Cycles :
          /\ cycles[k].pc = "idle"
          /\ \E message \in Inbound, offered \in ReplyStreams :
                \E sample \in InboundSamples(message) :
                    OnMessage(k, message, sample, offered)
    \/ \E k \in Cycles :
          /\ cycles[k].pc = "idle"
          /\ \E message \in Inbound : PolicyError(k, message)
    \/ \E k \in Cycles : EnterTyping(k)
    \/ \E k \in Cycles : TypingError(k)
    \/ \E k \in Cycles : FetchHistory(k)
    \/ \E k \in Cycles : FetchError(k)
    \/ \E k \in Cycles : Receive(k)
    \/ \E k \in Cycles : StreamEnd(k)
    \/ \E k \in Cycles : StreamError(k)
    \/ \E k \in Cycles : Deliver(k)
    \/ \E k \in Cycles : SendError(k)
    \/ \E k \in Cycles : Resume(k)
    \/ \E k \in Cycles : ImageSent(k)
    \/ \E k \in Cycles : ImageError(k)

SpecMessage == InitMessage /\ [][NextMessage]_vars

-----------------------------------------------------------------------------
(* sanitize_string, applied to strings of a small alphabet.                 *)

\* the characters of the strings: the three forbidden ones, a space and a letter
SanitizeAlphabet == FORBIDDEN_CHARACTERS \cup {" ", "a"}

RawStrings == UNION { [1..n -> SanitizeAlphabet] : n \in 0..MaxLen }

\* a caller passes raw_text to sanitize_string (and the result once more)
Sanitize ==
    /\ ~sanitized.done
    /\ sanitized' = [done |-> TRUE, once |-> sanitize_string(raw_text),
                     twice |-> sanitize_string(sanitize_string(raw_text))]
    /\ UNCHANGED raw_text
    /\ UNCHANGED trackerVars
    /\ UNCHANGED promptVars
    /\ UNCHANGED policyVars
    /\ UNCHANGED cycleVars

InitSanitize ==
    /\ TrackerStart({1})
    /\ PolicyStart({FALSE}, {None})
    /\ PromptBuilt(PersonaOfLen(PersonaSlack))
    /\ CyclesStart
    /\ raw_text \in RawStrings

NextSanitize == Sanitize

SpecSanitize == InitSanitize /\ [][NextSanitize]_vars

-----------------------------------------------------------------------------
(* Properties of RepetitionTracker, checked under SpecTracker.              *)

\* the canonical text (trimmed, lowercased) of the k-th message logged for c
Canon(c, k) == make_canonical(logged[c][k].content)

\* how many of the latest messages logged for c, counted back from the last
\* one without a gap, have the canonical text of the last one
TailRun(c) ==
    LET n == Len(logged[c])
    IN  Cardinality({k \in 1..n : \A j \in k..n : Canon(c, j) = Canon(c, n)})

\* C1: after threshold+1 consecutive log_message calls for one conversation
\* with equal canonical texts, whatever was logged before them,
\* get_throttle_message_id returns the id of the last of those messages.
C1_ThrottleAfterRepeats ==
    \A c \in Channels :
        (logged[c] # <<>> /\ TailRun(c) >= repetition_threshold + 1)
            => get_throttle_message_id(c) = Last(logged[c]).id

\* C1's case: a run of threshold+1 messages that are equal only after
\* canonicalization, following a message with another text
C1_Witness ==
    \E c \in Channels :
        LET n == Len(logged[c])
        IN  /\ n >= 3
            /\ TailRun(c) = repetition_threshold + 1
            /\ logged[c][n].content # logged[c][n - 1].content
            /\ get_throttle_message_id(c) = logged[c][n].id

\* what log_message did to conversation c in a step that logged a message for it
C2_Logged(c) == logged'[c] # logged[c]

\* C2: a boundary that is set is never cleared; it changes only to the id of a
\* message logged in that step which triggered the detector; and a message whose
\* canonical text differs from the stored one resets the counter to 0, stores
\* its canonical text and leaves the boundary as it was.
C2_Step ==
    \A c \in DOMAIN repetition_count :
        LET old == repetition_count[c]
            new == repetition_count'[c]
        IN  /\ c \in DOMAIN repetition_count'
            /\ Truthy(old[2]) => Truthy(new[2])
            /\ new[2] # old[2] =>
                  /\ C2_Logged(c)
                  /\ new[2] = Last(logged'[c]).id
                  /\ new[3] >= repetition_threshold
            /\ (C2_Logged(c) /\ make_canonical(Last(logged'[c]).content) # old[1]) =>
                  new = <<make_canonical(Last(logged'[c]).content), old[2], 0>>

C2_BoundaryNeverCleared == [][C2_Step]_vars

\* C2's case: a boundary set by an earlier repeat has survived a message with
\* another text, which reset the counter
C2_Witness ==
    \E c \in DOMAIN repetition_count :
        LET n == Len(logged[c])
        IN  /\ n >= 3
            /\ Canon(c, n) # Canon(c, n - 1)
            /\ repetition_count[c] = <<Canon(c, n), logged[c][n - 1].id, 0>>

\* C3: whenever a conversation's stored counter is at or above the threshold,
\* its stored boundary is the id of the message logged last for it.
C3_BoundaryFollowsRepeats ==
    \A c \in DOMAIN repetition_count :
        repetition_count[c][3] >= repetition_threshold
            => repetition_count[c][2] = Last(logged[c]).id

\* C3's case: with threshold 1, a third identical message has moved the
\* boundary to its own id
C3_Witness ==
    \E c \in DOMAIN repetition_count :
        /\ repetition_threshold = 1
        /\ Len(logged[c]) = 3
        /\ TailRun(c) = 3
        /\ repetition_count[c][3] = 2
        /\ repetition_count[c][2] = logged[c][3].id

\* C4: get_throttle_message_id gives no boundary (None, or the empty 0) for a
\* conversation with no logged bot message and for one whose messages never
\* triggered the detector, and a prompt built for such a conversation holds the
\* history generate_history returns with no boundary at all.
C4_NoBoundaryNoTruncation ==
    \A c \in Channels :
        /\ logged[c] = <<>> => get_throttle_message_id(c) = NoneId
        /\ c \notin triggered => ~Truthy(get_throttle_message_id(c))
        /\ (built = c /\ c \notin triggered) =>
              /\ ~Truthy(repeated_id)
              /\ prompt_history = generate_history(fetched, NoneId)

\* C4's case: a prompt built for a conversation with logged bot messages that
\* never triggered the detector
C4_Witness ==
    \E c \in Channels :
        /\ built = c
        /\ c \notin triggered
        /\ Len(logged[c]) >= 2
        /\ fetched = channel_history(c)
        /\ repeated_id = 0
        /\ Len(fetched) >= 2
        /\ prompt_history # <<>>

-----------------------------------------------------------------------------
(* Properties of the reply policy, checked under SpecPolicy.  ev is the     *)
(* evaluation that has just returned: its message, its answer, the dict     *)
(* before it (channel_last_direct_response is the dict after it), the time  *)
(* and the sample random.random() gave it, NoSample when it was not called. *)

Evaluated == ev.kind = "eval"

\* the author passes the policy's first rule: no bot account, not the bot itself
NonBot(m) == ~m.author_bot /\ m.author_id # AiUserId

IsPrivate(m) == m.channel = DmChannel

\* the words of a text: its maximal runs of word characters
Words(s) ==
    { SubSeq(s, i, j) : <<i, j>> \in
        { p \in (DOMAIN s) \X (DOMAIN s) :
            /\ p[1] <= p[2]
            /\ \A k \in p[1]..p[2] : s[k] \in WordChars
            /\ (p[1] = 1 \/ s[p[1] - 1] \notin WordChars)
            /\ (p[2] = Len(s) \/ s[p[2] + 1] \notin WordChars) } }

\* the text holds a configured wake-word as a whole word, in any case
HasWakeWord(m) ==
    \E w \in wakewords : \E t \in Words(m.content) : lower(t) = lower(w)

MentionsBot(m) == AiUserId \in m.mentions

\* C5: a private message from a non-bot author yields respond=true, whatever
\* its content, the policy's state and the random source, unless direct
\* messages are configured to be ignored.
C5_DirectMessageAnswered ==
    (Evaluated /\ NonBot(ev.message) /\ IsPrivate(ev.message) /\ ~ignore_dms)
        => ev.respond

\* C5's case: an empty private message, without wake-word or mention, answered
C5_Witness ==
    /\ Evaluated
    /\ NonBot(ev.message)
    /\ IsPrivate(ev.message)
    /\ ~ignore_dms
    /\ ev.message.content = <<>>
    /\ ev.message.mentions = {}
    /\ ev.respond

\* C6 as stated: every non-bot message holding a wake-word as a whole word
\* yields respond=true, in every kind of conversation and under every
\* configuration.
C6_WakeWordAlwaysAnswered ==
    (Evaluated /\ NonBot(ev.message) /\ HasWakeWord(ev.message)) => ev.respond

\* C6, amended: every non-bot message holding a wake-word as a whole word yields
\* respond=true, except in a private conversation while direct messages are
\* configured to be ignored.
C6_WakeWordAnswered ==
    (/\ Evaluated
     /\ NonBot(ev.message)
     /\ HasWakeWord(ev.message)
     /\ ~(IsPrivate(ev.message) /\ ignore_dms))
        => ev.respond

\* C6's case: the wake-word in another case, in a guild channel with no recent
\* direct response, not mentioning the bot
C6_Witness ==
    /\ Evaluated
    /\ NonBot(ev.message)
    /\ ~IsPrivate(ev.message)
    /\ ev.message.content = <<"a", " ", "B", "o", "t", "?">>
    /\ ev.message.mentions = {}
    /\ ev.before = << >>
    /\ ev.respond

\* C7: a message from a bot account or from the bot itself yields respond=false
\* and leaves the policy's state as it was.
C7_BotsIgnored ==
    (Evaluated /\ ~NonBot(ev.message))
        => (~ev.respond /\ channel_last_direct_response = ev.before)

\* C7's case: the bot's own account (under a user token) in a private message
\* that holds the wake-word and mentions the bot, while an outdated entry is in
\* the dict
C7_Witness ==
    /\ Evaluated
    /\ ~ev.message.author_bot
    /\ ev.message.author_id = AiUserId
    /\ IsPrivate(ev.message)
    /\ ~ignore_dms
    /\ HasWakeWord(ev.message)
    /\ MentionsBot(ev.message)
    /\ \E c \in DOMAIN ev.before :
          ev.before[c] < ev.at - discard_last_response_after_seconds
    /\ ~ev.respond
    /\ channel_last_direct_response = ev.before

\* the direct addresses C8 lists: a DM while DMs are not ignored, a whole-word
\* wake-word match, a mention of the bot
ListedDirectAddress(m) ==
    \/ IsPrivate(m) /\ ~ignore_dms
    \/ HasWakeWord(m)
    \/ MentionsBot(m)

\* the direct addresses of the code: a DM while DMs are not ignored and, outside
\* private conversations, a whole-word wake-word match or a mention of the bot
DirectAddress(m) ==
    IF IsPrivate(m) THEN ~ignore_dms ELSE HasWakeWord(m) \/ MentionsBot(m)

\* what a direct response does: the answer is true, the conversation's
\* timestamp is the current time, nothing else in the dict has changed (no
\* purge), and no sample was drawn
DirectResponse ==
    /\ ev.respond
    /\ ev.message.channel \in DOMAIN channel_last_direct_response
    /\ channel_last_direct_response[ev.message.channel] = ev.at
    /\ DOMAIN channel_last_direct_response = DOMAIN ev.before \cup {ev.message.channel}
    /\ \A c \in DOMAIN ev.before :
          c # ev.message.channel => channel_last_direct_response[c] = ev.before[c]
    /\ ev.steps = <<"bot", "self", "direct">>
    /\ ev.sample = NoSample

\* C8 as stated: every non-bot message that is a DM while DMs are not ignored,
\* holds a wake-word as a whole word or mentions the bot gets a direct response.
C8_ListedDirectAddress ==
    (Evaluated /\ NonBot(ev.message) /\ ListedDirectAddress(ev.message))
        => DirectResponse

\* C8, amended: a non-bot message that is a DM while DMs are not ignored or, in
\* a conversation that is not private, holds a wake-word as a whole word or
\* mentions the bot sets the conversation's lastDirectResponseTime to the
\* current time and returns true, without the other-mentions, empty-body, purge
\* or unsolicited rules and without drawing a sample.
C8_DirectAddress ==
    (Evaluated /\ NonBot(ev.message) /\ DirectAddress(ev.message))
        => DirectResponse

\* C8's case: a mention of the bot among others, in a message created before it
\* is handled, while the dict holds an outdated entry of another conversation
\* and an older one of this conversation
C8_Witness ==
    /\ Evaluated
    /\ NonBot(ev.message)
    /\ ~IsPrivate(ev.message)
    /\ ev.message.mentions = {"ai", "al"}
    /\ ev.message.created_at < ev.at
    /\ ev.message.channel \in DOMAIN ev.before
    /\ ev.before[ev.message.channel] < ev.at
    /\ \E c \in DOMAIN ev.before :
          /\ c # ev.message.channel
          /\ ev.before[c] < ev.at - discard_last_response_after_seconds
    /\ DirectResponse

\* C9: a non-bot message that is not a direct address and either mentions other
\* parties or has an empty body after trimming yields respond=false, whatever
\* the conversation's lastDirectResponseTime and the random draw.
C9_MentionsOrEmptyDeclined ==
    (/\ Evaluated
     /\ NonBot(ev.message)
     /\ ~DirectAddress(ev.message)
     /\ (ev.message.mentions # {} \/ strip(ev.message.content) = <<>>))
        => ~ev.respond

\* C9's case: a question that mentions another user, right after a direct
\* response in the conversation (an unsolicited check would answer it for
\* every sample)
C9_Witness ==
    /\ Evaluated
    /\ NonBot(ev.message)
    /\ ~DirectAddress(ev.message)
    /\ ev.message.mentions = {"al"}
    /\ ev.message.content = <<"h", "i", "?">>
    /\ ev.message.channel \in DOMAIN ev.before
    /\ ev.message.created_at - ev.before[ev.message.channel] = 0
    /\ ~ev.respond

\* the decay table's entries whose threshold is greater than elapsed
LaterEntries(elapsed) ==
    { i \in DOMAIN DISCORD_TIME_VS_RESPONSE_CHANCE :
        DISCORD_TIME_VS_RESPONSE_CHANCE[i][1] > elapsed }

\* the probability of the first of them, 0 when there is none
DecayChance(elapsed) ==
    IF LaterEntries(elapsed) = {} THEN 0
    ELSE DISCORD_TIME_VS_RESPONSE_CHANCE[
             CHOOSE i \in LaterEntries(elapsed) : \A j \in LaterEntries(elapsed) : i <= j][2]

\* the total probability C10 states for message m, elapsed after the
\* conversation's last direct response
TotalChance(m, elapsed) ==
    DecayChance(elapsed)
        + (IF m.content # <<>> /\ Last(m.content) \in {"?", "!"}
           THEN DISCORD_INTERROBANG_BONUS ELSE 0)

\* the message reaches the unsolicited check with a lastDirectResponseTime
\* recorded for its conversation
ReachesUnsolicited(m) ==
    /\ NonBot(m)
    /\ ~DirectAddress(m)
    /\ m.mentions = {}
    /\ strip(m.content) # <<>>
    /\ m.channel \in DOMAIN channel_last_direct_response

\* C10: such a message is answered iff one sample in [0,1) is below the total
\* probability: the first table entry whose threshold is greater than the
\* elapsed time (0 when there is none) plus the bonus when it ends with '?' or
\* '!'; so a total of 1.0 or more always answers and a total of 0 never does.
C10_UnsolicitedChance ==
    (Evaluated /\ ReachesUnsolicited(ev.message)) =>
        LET total == TotalChance(ev.message,
                         ev.message.created_at
                             - channel_last_direct_response[ev.message.channel])
        IN  /\ ev.sample \in Samples
            /\ ev.respond <=> (ev.sample < total)
            /\ total >= 100 => ev.respond
            /\ total = 0 => ~ev.respond

\* C10's case: the elapsed time equals the first threshold, so the second
\* entry's probability counts, the bonus is added, and a sample just below the
\* total answers
C10_Witness ==
    /\ Evaluated
    /\ ReachesUnsolicited(ev.message)
    /\ ev.message.created_at - channel_last_direct_response[ev.message.channel]
          = DISCORD_TIME_VS_RESPONSE_CHANCE[1][1]
    /\ ev.message.content = <<"h", "i", "!">>
    /\ ev.sample = 99
    /\ ev.respond

\* the conversation of m had, when the evaluation began, no direct response
\* within the decay window: no recorded time, or one at least as old as the
\* greatest threshold of the table
NoRecentDirectResponse(m) ==
    \/ m.channel \notin DOMAIN ev.before
    \/ ev.at - ev.before[m.channel] >= discard_last_response_after_seconds

\* C11: a conversation with no direct response within the decay window never
\* yields an unsolicited response: with no recorded time, or a last direct
\* response at least as old as the greatest threshold, a message that does not
\* directly address the bot yields respond=false for every sample, messages
\* ending in '?' or '!' included.
C11_NoUnsolicitedOutsideWindow ==
    (/\ Evaluated
     /\ NonBot(ev.message)
     /\ ~DirectAddress(ev.message)
     /\ NoRecentDirectResponse(ev.message))
        => ~ev.respond

\* no entry of the dict is older than the greatest threshold of the table
NoOutdatedEntry ==
    \A c \in DOMAIN channel_last_direct_response :
        channel_last_direct_response[c] >= ev.at - discard_last_response_after_seconds

\* C12 as stated: the purge runs on every evaluation, so after any evaluation,
\* whatever its outcome, the dict holds no entry older than the greatest
\* threshold.
C12_PurgedAfterEveryEvaluation == Evaluated => NoOutdatedEntry

\* the evaluation passed the author, direct-address, mention and empty-text
\* checks, and so came to the purge
ReachesPurge(m) ==
    /\ NonBot(m)
    /\ ~DirectAddress(m)
    /\ m.mentions = {}
    /\ strip(m.content) # <<>>

\* C12, amended: the purge runs on every evaluation that comes to the
\* unsolicited check, so after such an evaluation the dict holds no entry
\* older than the greatest threshold, and every other entry is as it was.
C12_PurgedBeforeUnsolicited ==
    (Evaluated /\ ReachesPurge(ev.message)) =>
        /\ NoOutdatedEntry
        /\ \A c \in DOMAIN ev.before :
              ev.before[c] >= ev.at - discard_last_response_after_seconds
                 => /\ c \in DOMAIN channel_last_direct_response
                    /\ channel_last_direct_response[c] = ev.before[c]

\* C12's case: an evaluation came to the unsolicited check while another
\* conversation's entry was outdated and this conversation's was not; the first
\* is gone and the second is kept
C12_Witness ==
    /\ Evaluated
    /\ ReachesPurge(ev.message)
    /\ \E c \in DOMAIN ev.before :
          /\ ev.before[c] < ev.at - discard_last_response_after_seconds
          /\ c \notin DOMAIN channel_last_direct_response
    /\ ev.message.channel \in DOMAIN channel_last_direct_response

-----------------------------------------------------------------------------
(* Properties of PromptGenerator, checked under SpecPrompt.                 *)

\* generate has returned on a generator that exists
Generated == generator = "built" /\ built # None

\* the line a message of the stream renders to
RenderedLine(raw_message) ==
    LET clean_message == sanitize_message(raw_message, TRUE)
    IN  format_history_line(
            IF raw_message.author_id = AiUserId THEN ai_name ELSE clean_message.author,
            clean_message.message_text)

RECURSIVE LinesOf(_, _, _)
\* the rendered lines of the messages of stream at the positions of S among
\* 1..i, oldest first (a stream is newest first)
LinesOf(stream, S, i) ==
    IF i = 0 THEN <<>>
    ELSE (IF i \in S THEN <<RenderedLine(stream[i])>> ELSE <<>>)
            \o LinesOf(stream, S, i - 1)

\* text is a concatenation of whole rendered lines of messages among the
\* first n of the stream
WholeLinesOfFirst(text, stream, n) ==
    \E S \in SUBSET (1..n) : text = Concat(LinesOf(stream, S, Len(stream)))

\* C13: for every history stream and every throttle boundary, the string
\* generate_history returns is at most max_history_chars characters long and is
\* a concatenation of whole rendered lines: a line that does not fit in what
\* remains of the budget is left out, never cut.
C13_HistoryWithinBudget ==
    Generated =>
        /\ Len(prompt_history) <= max_history_chars
        /\ WholeLinesOfFirst(prompt_history, fetched, Len(fetched))

\* C13's case: a line did not fit in what remained of the budget, although
\* some room was left, and lines taken before it are returned
C13_Witness ==
    /\ Generated
    /\ discard_log # NoneId
    /\ prompt_history # <<>>
    /\ Len(prompt_history) < max_history_chars

\* C14: with a throttle boundary at message id k, the history holds no line
\* rendered from message k or from a message older than k: it is made of lines
\* of the messages before k in the newest-first stream.
C14_NothingFromBoundaryOn ==
    Generated =>
        \A j \in DOMAIN fetched :
            fetched[j].id = repeated_id
                => WholeLinesOfFirst(prompt_history, fetched, j - 1)

\* C14's case: the boundary is the second message of a stream of three, its line
\* would have fitted after the first one's, and the history is the first
\* message's line alone
C14_Witness ==
    /\ Generated
    /\ Len(fetched) >= 3
    /\ fetched[2].id = repeated_id
    /\ strip(sanitize_string(fetched[2].content)) # <<>>
    /\ Len(RenderedLine(fetched[1])) + Len(RenderedLine(fetched[2])) <= max_history_chars
    /\ prompt_history = RenderedLine(fetched[1])

\* generate_history skips the message: the bot's own log of an image request, or
\* an empty text
Skipped(raw_message) ==
    LET text == strip(sanitize_string(raw_message.content))
    IN  \/ raw_message.author_id = AiUserId /\ Contains(text, IMAGE_MARKER)
        \/ text = <<>>

\* every message of the stream renders to a line of L characters, no throttle
\* boundary is in the stream, and the stream has more than floor(B/L) messages,
\* B being the budget
EqualLines(L) ==
    /\ fetched # <<>>
    /\ \A j \in DOMAIN fetched :
          /\ ~Skipped(fetched[j])
          /\ Len(RenderedLine(fetched[j])) = L
          /\ ~(Truthy(repeated_id) /\ fetched[j].id = repeated_id)
    /\ Len(fetched) > max_history_chars \div L

\* C15: with budget B and a stream of more than floor(B/L) messages that each
\* render to a line of L characters, generate_history returns exactly the
\* floor(B/L) newest lines, oldest first, and logs a discard count of the
\* configured number of history lines minus the number of lines it returns.
C15_NewestLinesThatFit ==
    (Generated /\ fetched # <<>>) =>
        LET L == Len(RenderedLine(fetched[1]))
        IN  EqualLines(L) =>
                /\ prompt_history
                      = Concat(LinesOf(fetched, 1..(max_history_chars \div L), Len(fetched)))
                /\ Len(prompt_history) = L * (max_history_chars \div L)
                /\ discard_log = HistoryLimit - (max_history_chars \div L)

\* C15's case: the lines that fit fill the budget exactly, and one line more is
\* in the stream
C15_Witness ==
    /\ Generated
    /\ fetched # <<>>
    /\ EqualLines(Len(RenderedLine(fetched[1])))
    /\ Len(prompt_history) = max_history_chars
    /\ discard_log # NoneId
    /\ discard_log < HistoryLimit

\* C16: constructing the prompt generator raises ValueError whenever the
\* estimated token space in characters minus the length of the template
\* rendered with an empty history and the image notice is below
\* REQUIRED_HISTORY_SIZE_CHARS, and succeeds otherwise, so that a generator
\* that exists has max_history_chars at or above the required size.
C16_FailsFastWithValueError ==
    generator # "none" =>
        IF est_chars_in_token_space
              - Len(fill_in_prompt_template(persona, <<>>, photo_request_made))
                 < REQUIRED_HISTORY_SIZE_CHARS
        THEN generator = "ValueError"
        ELSE generator = "built" /\ max_history_chars >= REQUIRED_HISTORY_SIZE_CHARS

\* C17: for every history stream, every throttle boundary and either value of
\* photo_requested, the string generate returns is at most the estimated token
\* space in characters long.
C17_PromptWithinTokenSpace ==
    Generated => Len(prompt) <= est_chars_in_token_space

\* C17's case: an image is pending and the history fills its budget, so the
\* prompt fills the token space exactly
C17_Witness ==
    /\ Generated
    /\ photo_requested
    /\ Len(prompt_history) = max_history_chars
    /\ Len(prompt) = est_chars_in_token_space

-----------------------------------------------------------------------------
(* Properties of the response cycles, checked under SpecCycle.              *)

\* a sentence that ends with " says:" and is not the AI's own role label
IsImpersonation(sentence) ==
    /\ endswith(sentence, <<" ", "s", "a", "y", "s", ":">>)
    /\ sentence # own_label

\* the positions, in the stream offered to task k, of the sentences it has sent
\* to the platform, and of those it has passed to log_message
SentIdx(k) == { cycles[k].sent[i].idx : i \in DOMAIN cycles[k].sent }
RecordedIdx(k) == { cycles[k].recorded[i].idx : i \in DOMAIN cycles[k].recorded }

\* C18: a streamed sentence that ends with " says:" and is not exactly the AI's
\* own role label is dropped and ends the cycle's consumption of the stream:
\* that sentence and every later sentence of the stream are neither sent to
\* the platform nor recorded in RepetitionTracker.
C18_ImpersonationAborts ==
    \A k \in Cycles :
        \A i \in 1..cycles[k].pos :
            IsImpersonation(cycles[k].offered[i]) =>
                /\ cycles[k].pos = i
                /\ cycles[k].pc = "done"
                /\ \A j \in SentIdx(k) \cup RecordedIdx(k) : j < i

\* C18's case: another participant's label came first and a plain sentence
\* after it; the cycle is over and has sent nothing
C18_Witness ==
    \E k \in Cycles :
        /\ cycles[k].offered = << <<"A", "l", " ", "s", "a", "y", "s", ":">>, <<"o", "k">> >>
        /\ cycles[k].pos = 1
        /\ cycles[k].pc = "done"
        /\ cycles[k].sent = <<>>
        /\ logged[cycles[k].channel] = <<>>

\* C19: a streamed sentence exactly equal to the AI's own role label is dropped,
\* neither sent nor recorded, and the cycle goes on with the next sentence:
\* a cycle that ends in success without a sentence of another participant's
\* label has consumed its whole stream, and has sent and recorded every
\* sentence of it but the own labels.  The exact match comes before the
\* ends-with rule: the own label never aborts.
C19_OwnLabelSkipped ==
    \A k \in Cycles :
        /\ \A i \in 1..cycles[k].pos :
              cycles[k].offered[i] = own_label
                  => i \notin SentIdx(k) \cup RecordedIdx(k)
        /\ (/\ cycles[k].pc = "done"
            /\ cycles[k].outcome = "success"
            /\ \A i \in 1..cycles[k].pos : ~IsImpersonation(cycles[k].offered[i]))
              => /\ cycles[k].pos = Len(cycles[k].offered)
                 /\ SentIdx(k) = { i \in DOMAIN cycles[k].offered :
                                      cycles[k].offered[i] # own_label }
                 /\ RecordedIdx(k) = SentIdx(k)

\* C19's case: the own label came first and a plain sentence after it; the
\* cycle ended in success, having sent and recorded the second sentence only
C19_Witness ==
    \E k \in Cycles :
        /\ cycles[k].offered = <<own_label, <<"o", "k">> >>
        /\ cycles[k].pc = "done"
        /\ cycles[k].outcome = "success"
        /\ SentIdx(k) = {2}
        /\ RecordedIdx(k) = {2}

\* C20: within one response cycle, sentences are sent to the platform in the
\* order the backend generated them; each log_message call comes after its own
\* sentence's send has succeeded and before the next sentence of the cycle is
\* sent; a sentence whose send failed or that was filtered out is never
\* recorded.
C20_SendThenRecordInOrder ==
    \A k \in Cycles :
        LET cy == cycles[k]
        IN  /\ \A i \in 1..(Len(cy.sent) - 1) :
                  /\ cy.sent[i].idx < cy.sent[i + 1].idx
                  /\ cy.sent[i].id < cy.sent[i + 1].id
            /\ Len(cy.recorded) <= Len(cy.sent)
            /\ cy.recorded = SubSeq(cy.sent, 1, Len(cy.recorded))
            /\ IF cy.pc = "sent"
               THEN Len(cy.sent) = Len(cy.recorded) + 1
               ELSE cy.recorded = cy.sent
            /\ \A i \in RecordedIdx(k) :
                  /\ cy.offered[i] # own_label
                  /\ ~IsImpersonation(cy.offered[i])
            /\ \A i \in DOMAIN cy.recorded :
                  \E m \in Range(logged[cy.channel]) :
                      /\ m.id = cy.recorded[i].id
                      /\ m.content = cy.offered[cy.recorded[i].idx]
                      /\ m \in Range(channel_messages[cy.channel])

\* C20's case: a cycle has sent and recorded two sentences, while the other
\* cycle started in between and ended in failure on a sentence it never sent
C20_Witness ==
    \E k \in Cycles : \E o \in Cycles :
        /\ Len(cycles[k].recorded) = 2
        /\ cycles[k].recorded[2].id > cycles[k].recorded[1].id + 1
        /\ cycles[o].pc = "done"
        /\ cycles[o].outcome = "failure"
        /\ cycles[o].pos > 0
        /\ cycles[o].offered[cycles[o].pos] = <<"o", "k">>
        /\ cycles[o].pos \notin SentIdx(o)

-----------------------------------------------------------------------------
(* Properties of failing response cycles, checked under SpecCycle.          *)

\* task k's step is an exception caught by send_response's own handler
FailsInLoop(k) ==
    /\ cycles[k].raised = None
    /\ cycles'[k].raised = except_clause("stream").log

\* C21: when the stream or a send raises inside the loop of send_response, the
\* step counts one failure and no success, sends and records nothing, asks the
\* backend for nothing more and ends the task; what the task sent before is
\* still in the channel and was recorded by log_message (the tracker is left
\* as it is), no other task is touched, and a task that has ended never moves
\* again, so that a later message runs in a task of its own.
C21_FailureEndsCycle ==
    [][\A k \in Cycles :
          /\ FailsInLoop(k) =>
                /\ cycles[k].pc \in {"stream", "sending"}
                /\ cycles'[k].pc = "done"
                /\ cycles'[k].outcome = "failure"
                /\ stats' = [stats EXCEPT !.failure = @ + 1]
                /\ cycles'[k].requests = 1
                /\ cycles'[k].requests = cycles[k].requests
                /\ cycles'[k].sent = cycles[k].sent
                /\ cycles'[k].recorded = cycles[k].sent
                /\ \A i \in DOMAIN cycles[k].sent :
                      \E m \in Range(logged[cycles[k].channel]) :
                          /\ m.id = cycles[k].sent[i].id
                          /\ m \in Range(channel_messages[cycles[k].channel])
                /\ UNCHANGED <<channel_messages, next_id, repetition_count, logged>>
                /\ \A j \in Cycles \ {k} : cycles'[j] = cycles[j]
          /\ cycles[k].pc = "done" => cycles'[k] = cycles[k]
      ]_vars

\* one task failed after it had sent and recorded a sentence, and another
\* task, for a later message of the same channel, has succeeded
C21_Witness ==
    /\ cycles[1].raised = except_clause("stream").log
    /\ cycles[1].outcome = "failure"
    /\ Len(cycles[1].recorded) = 1
    /\ cycles[2].channel = cycles[1].channel
    /\ cycles[2].outcome = "success"
    /\ Len(cycles[2].sent) = 1
    /\ stats.failure = 1 /\ stats.success = 1

\* the tasks that have ended, and those that ended with outcome o counted
Ended == {k \in Cycles : cycles[k].pc = "done"}
EndedAs(o) == {k \in Cycles : cycles[k].pc = "done" /\ cycles[k].outcome = o}

\* C22: every response cycle that has ended has recorded exactly one terminal
\* outcome in the aggregate stats, a success or a failure: each ended task
\* counted one of the two, and the counters hold one event per ended task.
C22_ExactlyOneOutcome ==
    /\ \A k \in Ended : cycles[k].outcome \in {"success", "failure"}
    /\ stats.success = Cardinality(EndedAs("success"))
    /\ stats.failure = Cardinality(EndedAs("failure"))
    /\ stats.success + stats.failure = Cardinality(Ended)

-----------------------------------------------------------------------------
(* Properties of on_message as a whole, checked under SpecMessage.          *)

\* what the handlers of on_message and send_response log
HandlerLogs ==
    {"Exception while checking message", "Exception while sending response", "Error"}

\* task k's step is an exception raised in it
Fails(k) == cycles[k].raised = None /\ cycles'[k].raised # None

\* the messages of all channels posted by the bot
Outbound ==
    UNION { {m \in Range(channel_messages[c]) : m.author_id = AiUserId} : c \in Channels }

\* C23: an exception raised in a task of on_message (while the policy is
\* evaluated, the typing context entered, the history fetched and the prompt
\* built, the reply streamed or a sentence sent) is caught and logged by a
\* handler of that task, which then ends: it leaves on_message through no
\* other way.  The failing step changes nothing a later message is evaluated
\* or answered from: the policy's map, clock and settings, the repetition
\* tracker, the prompt generator, what the bot has posted and the other tasks
\* are as they were.
C23_ErrorsStayInCycle ==
    [][\A k \in Cycles :
          Fails(k) =>
             /\ cycles'[k].raised \in HandlerLogs
             /\ cycles'[k].pc = "done"
             /\ UNCHANGED <<channel_last_direct_response, now, ignore_dms,
                            stable_diffusion_client>>
             /\ UNCHANGED <<repetition_threshold, repetition_count, logged>>
             /\ UNCHANGED <<persona, generator, max_history_chars>>
             /\ Outbound' = Outbound
             /\ \A j \in Cycles \ {k} : cycles'[j] = cycles[j]
      ]_vars

\* the first task failed while it fetched the history, and the task of a
\* later message of that channel has sent its reply and succeeded
C23_Witness ==
    /\ cycles[1].raised = "Exception while sending response"
    /\ cycles[1].pc = "done"
    /\ cycles[2].channel = cycles[1].channel
    /\ cycles[2].trigger.id > cycles[1].trigger.id
    /\ Len(cycles[2].recorded) = 1
    /\ cycles[2].outcome = "success"

\* task k's step is on_message returning because the policy declined
Declines(k) == cycles[k].pc = "idle" /\ cycles'[k].pc = "declined"

\* what a declined message must leave alone, whatever the policy's map does:
\* nothing is posted by the bot, no image task exists, the backend is asked
\* nothing, no stats are recorded, the tracker and the other tasks are as before
DeclineFrame(k) ==
    /\ Outbound' = Outbound
    /\ cycles'[k].image = "none"
    /\ cycles'[k].requests = 0
    /\ cycles'[k].sent = <<>>
    /\ stats' = stats
    /\ UNCHANGED <<repetition_threshold, repetition_count, logged>>
    /\ \A j \in Cycles \ {k} : cycles'[j] = cycles[j]

\* C24 as stated: when the policy declines a message nothing is posted, no
\* image task is spawned, no backend request is made, no stats are recorded and
\* the tracker and the lastDirectResponseTime map are exactly as before.
C24_DeclineChangesNothing ==
    [][\A k \in Cycles :
          Declines(k) =>
             /\ DeclineFrame(k)
             /\ channel_last_direct_response' = channel_last_direct_response
      ]_vars

\* C24, amended: when the policy declines a message nothing is posted, no
\* image task is spawned, no backend request is made, no stats are recorded and
\* the tracker is exactly as before; the lastDirectResponseTime map gains and
\* changes no entry: it is as before, or as before without the entries older
\* than the largest decay threshold, which the evaluation purges.
C24_DeclineOnlyPurges ==
    [][\A k \in Cycles :
          Declines(k) =>
             /\ DeclineFrame(k)
             /\ channel_last_direct_response' \in
                    { channel_last_direct_response,
                      [c \in { d \in DOMAIN channel_last_direct_response :
                                 now - channel_last_direct_response[d]
                                     <= discard_last_response_after_seconds } |->
                          channel_last_direct_response[c]] }
      ]_vars

\* a private message was answered directly, and a later message was declined
\* by an evaluation that purged the private channel's outdated timestamp
C24_Witness ==
    /\ cycles[1].channel = DmChannel
    /\ cycles[1].pc \notin {"idle", "declined"}
    /\ cycles[1].raised # "Exception while checking message"
    /\ cycles[2].pc = "declined"
    /\ DmChannel \notin DOMAIN channel_last_direct_response

\* the log of the handler in wrapped_send_image
ImageFailed == "Exception while sending image"

\* C25: for an accepted message that matches an image pattern, with an image
\* backend configured, on_message creates the image task and goes on at once
\* to send_response with photo_requested True; the prompt it builds carries
\* the image notice; the image task ends (image posted, or exception caught
\* and logged) without touching the text response, which it neither ends nor
\* counts as failed, and no step of the text response waits for or changes
\* the image task.
C25_ImageTaskDetached ==
    [][\A k \in Cycles :
          /\ ( /\ cycles[k].pc = "typing" /\ cycles'[k].pc = "history"
               /\ stable_diffusion_client # None
               /\ make_photo_prompt_from_message(cycles[k].trigger).matched )
             => /\ cycles'[k].image = "running"
                /\ cycles'[k].photo_requested
          /\ ( /\ cycles[k].pc = "history" /\ cycles'[k].pc = "stream"
               /\ cycles[k].image # "none" )
             => /\ photo_requested'
                /\ Contains(prompt', photo_request_made)
          /\ ( cycles[k].image = "running" /\ cycles'[k].image # "running" )
             => /\ cycles'[k].image \in {"sent", ImageFailed}
                /\ cycles'[k] = [cycles[k] EXCEPT !.image = cycles'[k].image]
                /\ stats' = stats
          /\ ( cycles[k].image # "none" /\ cycles'[k].pc # cycles[k].pc )
             => cycles'[k].image = cycles[k].image
      ]_vars

\* one text response succeeded while its image task was still running, and
\* another succeeded although its image task had failed
C25_Witness ==
    /\ \A k \in Cycles :
          /\ cycles[k].photo_requested
          /\ cycles[k].outcome = "success"
          /\ Len(cycles[k].recorded) = 1
    /\ cycles[1].image = "running"
    /\ cycles[2].image = ImageFailed
    /\ stats.failure = 0

\* the messages of channel c posted by the bot that are neither a sentence of
\* a text response nor an image: what an error notice to the user would be
Notices(c) ==
    { m \in Range(channel_messages[c]) :
        /\ m.author_id = AiUserId
        /\ \A k \in Cycles : m.id \notin { cycles[k].sent[i].id : i \in DOMAIN cycles[k].sent }
        /\ ~Contains(m.content, IMAGE_MARKER) }

\* C30: whenever the image task of a message has failed, an error message has
\* been posted to its conversation, and a failure of the text generation alone
\* posts no message.
C30_ImageFailureSurfaced ==
    \A k \in Cycles :
        /\ cycles[k].image = ImageFailed => Notices(cycles[k].channel) # {}
        /\ ( /\ cycles[k].outcome = "failure"
             /\ \A j \in Cycles : cycles[j].image # ImageFailed )
           => Notices(cycles[k].channel) = {}

-----------------------------------------------------------------------------
(* Properties of concurrent response cycles, checked under SpecCycle.       *)

\* the task that sent the message with this id
SenderOf(id) ==
    { k \in Cycles : \E i \in DOMAIN cycles[k].sent : cycles[k].sent[i].id = id }

\* log_message was applied to a later message of channel c before an earlier one
Inverted(c) ==
    \E i, j \in DOMAIN logged[c] : i < j /\ logged[c][i].id > logged[c][j].id

\* C26: response cycles of one conversation are not serialized.  Whatever the
\* interleaving, log_message is applied only to messages that were sent, each
\* task has recorded all it sent but the send it is resuming from, and the
\* tracker holds the message recorded last; two updates applied against the
\* order of their sends always belong to two different tasks (the witness
\* shows that this happens, with both tasks in flight).
C26_UpdateOrderAcrossCycles ==
    /\ \A c \in Channels :
          /\ \A i \in DOMAIN logged[c] :
                /\ logged[c][i] \in Range(channel_messages[c])
                /\ SenderOf(logged[c][i].id) # {}
          /\ \A i, j \in DOMAIN logged[c] :
                (i < j /\ logged[c][i].id > logged[c][j].id)
                    => SenderOf(logged[c][i].id) \cap SenderOf(logged[c][j].id) = {}
          /\ logged[c] # <<>> =>
                /\ c \in DOMAIN repetition_count
                /\ repetition_count[c][1] = make_canonical(Last(logged[c]).content)
    /\ \A k \in Cycles :
          /\ cycles[k].pc # "sent" => cycles[k].recorded = cycles[k].sent
          /\ cycles[k].pc = "sent" =>
                cycles[k].recorded = SubSeq(cycles[k].sent, 1, Len(cycles[k].sent) - 1)

\* two tasks of one channel are both in their sentence loops, and the tracker
\* was updated for the message sent second before the message sent first
C26_Witness ==
    /\ cycles[1].channel = cycles[2].channel
    /\ cycles[1].pc = "stream" /\ cycles[2].pc = "stream"
    /\ cycles[1].pos < Len(cycles[1].offered)
    /\ cycles[2].pos < Len(cycles[2].offered)
    /\ Inverted(cycles[1].channel)

-----------------------------------------------------------------------------
(* The two per-conversation maps, checked under SpecMessage.                *)

\* C27: the RepetitionState map and the lastDirectResponseTime map change
\* independently: a step that sets or purges a lastDirectResponseTime leaves
\* every RepetitionState entry as it is, a step that applies log_message
\* leaves every lastDirectResponseTime entry as it is, and no step removes a
\* RepetitionState entry.
C27_IndependentMaps ==
    [][/\ channel_last_direct_response' # channel_last_direct_response
            => repetition_count' = repetition_count
       /\ repetition_count' # repetition_count
            => channel_last_direct_response' = channel_last_direct_response
       /\ DOMAIN repetition_count \subseteq DOMAIN repetition_count'
      ]_vars

\* the private channel's RepetitionState entry, created by log_message while
\* its lastDirectResponseTime was set, has outlived the purge of that time
C27_Witness ==
    /\ cycles[1].channel = DmChannel
    /\ Len(cycles[1].recorded) = 1
    /\ DmChannel \in DOMAIN repetition_count
    /\ repetition_count[DmChannel][1] = <<"o", "k">>
    /\ channel_last_direct_response = << >>

-----------------------------------------------------------------------------
(* sanitize_string as a function, checked under SpecSanitize.               *)

-----------------------------------------------------------------------------
(* Wake-words inside longer words, checked under SpecPolicy.                *)

\* the text holds a wake-word, in any case, but never as a whole word
WakeWordOnlyInsideWord(m) ==
    /\ \E w \in wakewords : Contains(lower(m.content), lower(w))
    /\ ~HasWakeWord(m)

\* C29: a message whose text holds a wake-word only inside a longer word, in a
\* channel that is not private and without a mention of the bot, is not taken
\* as a direct address: the evaluation goes past the direct-response check and
\* leaves the channel's lastDirectResponseTime unset or as it was.
C29_SubstringIsNoWakeWord ==
    ( /\ Evaluated
      /\ NonBot(ev.message)
      /\ ~IsPrivate(ev.message)
      /\ ~MentionsBot(ev.message)
      /\ WakeWordOnlyInsideWord(ev.message) )
        => /\ Len(ev.steps) > 3
           /\ ev.steps[3] = "direct"
           /\ ev.message.channel \in DOMAIN channel_last_direct_response
                => /\ ev.message.channel \in DOMAIN ev.before
                   /\ channel_last_direct_response[ev.message.channel]
                          = ev.before[ev.message.channel]

\* "robots" from a user in the channel, while the channel has a recent direct
\* response: the evaluation reached the unsolicited check and the time stayed
C29_Witness ==
    /\ Evaluated
    /\ NonBot(ev.message)
    /\ ev.message.channel = "general"
    /\ ev.message.mentions = {}
    /\ ev.message.content = <<"r", "o", "b", "o", "t", "s">>
    /\ Last(ev.steps) = "unsolicited"
    /\ "general" \in DOMAIN channel_last_direct_response
    /\ channel_last_direct_response["general"] < ev.at

-----------------------------------------------------------------------------
(* More properties of generate_history, checked under SpecPrompt.           *)

\* message j of the fetched stream is the throttle boundary
AtBoundary(j) == Truthy(repeated_id) /\ fetched[j].id = repeated_id

\* the messages among the n newest of the stream that are not skipped
Included(n) == { j \in 1..n : ~Skipped(fetched[j]) }

\* the lines of the messages of S, oldest first, as one string
Joined(S) == Concat(LinesOf(fetched, S, Len(fetched)))

\* the scan consumes the n newest messages: none of them is the boundary, and
\* up to each of them the lines taken fit the budget
Consumed(n) ==
    \A j \in 1..n : ~AtBoundary(j) /\ Len(Joined(Included(j))) <= max_history_chars

\* the scan consumes the n newest messages and stops there
StopsAfter(n) ==
    /\ n \in 0..Len(fetched)
    /\ Consumed(n)
    /\ n < Len(fetched) => ~Consumed(n + 1)

\* C31: generate_history returns the lines of a prefix of the newest-first
\* stream, skipped messages left out: the scan ends at the first message that
\* is the boundary or whose line does not fit what remains of the budget, and
\* nothing older is taken even when it would fit; the lines are joined oldest
\* first.
C31_PrefixOldestFirst ==
    Generated =>
        \E n \in 0..Len(fetched) :
            /\ StopsAfter(n)
            /\ prompt_history = Joined(Included(n))

\* C31's case: a line was taken, the next message's line did not
\* fit, and the message after that one has a line that would have fitted
C31_Witness ==
    /\ Generated
    /\ Len(fetched) >= 3
    /\ \E n \in 1..(Len(fetched) - 2) :
          /\ StopsAfter(n)
          /\ ~AtBoundary(n + 1)
          /\ ~Skipped(fetched[n + 2])
          /\ ~AtBoundary(n + 2)
          /\ Len(prompt_history) + Len(RenderedLine(fetched[n + 2])) <= max_history_chars
          /\ prompt_history = Joined(Included(n))
          /\ prompt_history # <<>>

\* the stream without its j-th message
Without(stream, j) ==
    [i \in 1..(Len(stream) - 1) |-> IF i < j THEN stream[i] ELSE stream[i + 1]]

\* the scan of the fetched stream reaches message j and goes past it
Passed(j) == \E n \in j..Len(fetched) : Consumed(n)

\* C32: a message whose sanitized, trimmed text is empty, or that the bot wrote
\* and that holds the image marker, is skipped: where the scan reaches it, the
\* history is what the stream without that message gives (no line, no budget
\* used, the scan goes on).  Every other message the scan passes contributes
\* its line, the marker in another author's message included.
C32_SkippedExactly ==
    Generated =>
        \A j \in DOMAIN fetched :
            LET text == strip(sanitize_string(fetched[j].content))
                skip == \/ text = <<>>
                        \/ /\ fetched[j].author_id = AiUserId
                           /\ Contains(text, IMAGE_MARKER)
            IN  /\ (skip /\ ~AtBoundary(j))
                    => prompt_history = generate_history(Without(fetched, j), repeated_id)
                /\ (~skip /\ Passed(j))
                    => Contains(prompt_history, RenderedLine(fetched[j]))

\* C32's case: the newest message is the bot's log of an image request, the
\* next is blank, and both are skipped; the oldest is another author's text
\* with the same marker, and its line is the history
C32_Witness ==
    /\ Generated
    /\ Len(fetched) = 3
    /\ ~Truthy(repeated_id)
    /\ fetched[1].author_id = AiUserId
    /\ Contains(fetched[1].content, IMAGE_MARKER)
    /\ strip(sanitize_string(fetched[2].content)) = <<>>
    /\ fetched[3].author_id # AiUserId
    /\ fetched[3].content = IMAGE_MARKER
    /\ prompt_history = RenderedLine(fetched[3])

-----------------------------------------------------------------------------
(* The throttle boundary and the prompt of a cycle, checked under SpecCycle. *)

\* the prompt of the last cycle that built one, and what it was built from
BuiltPrompt == <<built, fetched, repeated_id, prompt_history, prompt>>

\* C33: a task reads the throttle boundary once, as send_response starts, and
\* builds its one prompt from the boundary it read, whatever log_message has
\* set since; a step that applies log_message changes no prompt and no task's
\* boundary, and a task that starts reads the boundary the tracker holds then.
C33_BoundaryReadOnce ==
    [][\A k \in Cycles :
          /\ (cycles[k].pc = "idle" /\ cycles'[k].pc = "history")
                => cycles'[k].repeated_id = get_throttle_message_id(cycles'[k].channel)
          /\ cycles[k].pc # "idle"
                => cycles'[k].repeated_id = cycles[k].repeated_id
          /\ (cycles[k].pc = "history" /\ cycles'[k].pc = "stream")
                => /\ cycles[k].requests = 0
                   /\ repeated_id' = cycles[k].repeated_id
                   /\ prompt_history'
                         = generate_history(channel_history(cycles[k].channel),
                                            cycles[k].repeated_id)
          /\ (cycles[k].pc # "history" /\ cycles[k].pc # "idle")
                => cycles'[k].requests = cycles[k].requests
          /\ repetition_count' # repetition_count
                => /\ BuiltPrompt' = BuiltPrompt
                   /\ \A j \in Cycles : cycles'[j].repeated_id = cycles[j].repeated_id
      ]_vars

\* the first task had read no boundary and set one itself with its second
\* equal sentence; the second task read that boundary and built its prompt
\* with only what came after it, and another task's boundary was set by then
C33_Witness ==
    /\ cycles[1].channel = cycles[2].channel
    /\ ~Truthy(cycles[1].repeated_id)
    /\ Len(cycles[1].recorded) = 2
    /\ Truthy(cycles[2].repeated_id)
    /\ cycles[2].repeated_id = cycles[1].recorded[2].id
    /\ cycles[2].pc = "stream"
    /\ repeated_id = cycles[2].repeated_id
    /\ built = cycles[2].channel
    /\ prompt_history # <<>>

-----------------------------------------------------------------------------
(* When a boundary may be set, checked under SpecTracker.                   *)

\* the messages logged for c up to the k-th end with a run of at least n
\* messages of one canonical text
RunEndingAt(c, k, n) ==
    /\ k >= n
    /\ \A j \in (k - n + 1)..k : Canon(c, j) = Canon(c, k)

\* C34: a conversation's boundary is the id of a logged message that ended a
\* run of at least threshold+1 consecutive messages of one canonical text; so
\* after the first message logged for a conversation it has no boundary.
C34_BoundaryOnlyAfterRepeats ==
    \A c \in DOMAIN repetition_count :
        Truthy(get_throttle_message_id(c))
            => \E k \in DOMAIN logged[c] :
                  /\ logged[c][k].id = get_throttle_message_id(c)
                  /\ RunEndingAt(c, k, repetition_threshold + 1)

-----------------------------------------------------------------------------
(* Who writes channel_last_direct_response, checked under SpecPolicy.       *)

\* the step is an evaluation that ends in the direct branch
DirectStep ==
    /\ ev.kind = "none"
    /\ ev'.kind = "eval"
    /\ ev'.steps = <<"bot", "self", "direct">>

\* C35: an entry of channel_last_direct_response is created or changed only
\* by an evaluation that ends in the direct branch, for the conversation of
\* its message and to the time of that evaluation, and every such evaluation
\* does so; any other step leaves each entry as it was or removes it. So an
\* entry is the time of the conversation's latest direct response.
C35_OnlyDirectWrites ==
    [][/\ \A c \in DOMAIN channel_last_direct_response' :
             \/ /\ c \in DOMAIN channel_last_direct_response
                /\ channel_last_direct_response'[c] = channel_last_direct_response[c]
             \/ /\ DirectStep
                /\ ev'.respond
                /\ c = ev'.message.channel
                /\ channel_last_direct_response'[c] = now
       /\ DirectStep
             => /\ ev'.message.channel \in DOMAIN channel_last_direct_response'
                /\ channel_last_direct_response'[ev'.message.channel] = now
      ]_vars

\* an unsolicited response in a conversation whose entry, older than this
\* evaluation, is still what it was
C35_Witness ==
    /\ Evaluated
    /\ ev.respond
    /\ ev.sample # NoSample
    /\ ev.message.channel \in DOMAIN channel_last_direct_response
    /\ channel_last_direct_response[ev.message.channel] < ev.at
    /\ channel_last_direct_response[ev.message.channel] = ev.before[ev.message.channel]

-----------------------------------------------------------------------------
(* Private conversations while direct messages are ignored, checked under   *)
(* SpecPolicy.                                                              *)

\* C36: while ignore_dms is set, the private conversation has no entry in
\* channel_last_direct_response and every evaluation of a message in it
\* answers false, whatever the message holds and whatever sample is offered.
C36_IgnoredDmNeverAnswered ==
    ignore_dms =>
        /\ DmChannel \notin DOMAIN channel_last_direct_response
        /\ (Evaluated /\ IsPrivate(ev.message)) => ~ev.respond

\* a private question holding the wake-word, from a user, reached the
\* unsolicited check while another conversation had a timestamp, and was
\* declined without a sample being drawn
C36_Witness ==
    /\ ignore_dms
    /\ Evaluated
    /\ NonBot(ev.message)
    /\ IsPrivate(ev.message)
    /\ HasWakeWord(ev.message)
    /\ endswith(ev.message.content, <<"?">>)
    /\ ev.steps[Len(ev.steps)] = "unsolicited"
    /\ ev.sample = NoSample
    /\ DOMAIN channel_last_direct_response # {}
    /\ ~ev.respond

-----------------------------------------------------------------------------
(* Per-conversation state is kept by key, checked under SpecMessage.        *)

\* conversation c has the same RepetitionState after the step as before it
SameTracked(c) ==
    /\ c \in DOMAIN repetition_count' <=> c \in DOMAIN repetition_count
    /\ c \in DOMAIN repetition_count => repetition_count'[c] = repetition_count[c]

\* the step is an accepted on_message for a message in conversation c
AcceptedIn(c) ==
    \E k \in Cycles :
        /\ cycles[k].pc = "idle"
        /\ cycles'[k].pc = "typing"
        /\ cycles'[k].channel = c

\* C37: a step changes the RepetitionState of a conversation only by logging
\* a message for that conversation; it creates or changes a conversation's
\* lastDirectResponseTime only when it accepts a message of that conversation;
\* and it removes a conversation's lastDirectResponseTime only when that
\* time is older than the purge keeps.
C37_StateIsolatedByKey ==
    [][\A b \in Channels :
          /\ logged'[b] = logged[b] => SameTracked(b)
          /\ b \in DOMAIN channel_last_direct_response'
                => \/ /\ b \in DOMAIN channel_last_direct_response
                      /\ channel_last_direct_response'[b] = channel_last_direct_response[b]
                   \/ AcceptedIn(b)
          /\ (/\ b \in DOMAIN channel_last_direct_response
              /\ b \notin DOMAIN channel_last_direct_response')
                => channel_last_direct_response[b]
                      < now - discard_last_response_after_seconds
      ]_vars

\* the private conversation was addressed and answered first, the guild
\* channel later: each has its own RepetitionState from its own reply, and the
\* private conversation's timestamp is still the earlier one
C37_Witness ==
    /\ cycles[1].channel = DmChannel
    /\ cycles[2].channel = "general"
    /\ Len(cycles[1].recorded) = 1
    /\ Len(cycles[2].recorded) = 1
    /\ DOMAIN repetition_count = Channels
    /\ repetition_count[DmChannel][2] = 0
    /\ repetition_count["general"][2] = 0
    /\ DOMAIN channel_last_direct_response = Channels
    /\ channel_last_direct_response[DmChannel] < channel_last_direct_response["general"]

-----------------------------------------------------------------------------
(* A boundary that is not in the fetched history, checked under SpecPrompt. *)

\* the boundary is the id of no fetched message
BoundaryAbsent == \A j \in DOMAIN fetched : fetched[j].id # repeated_id

\* C38: when the boundary id is the id of no message of the fetched history,
\* generate_history returns, and logs, what it does with no boundary at all.
C38_AbsentBoundaryIgnored ==
    (Generated /\ BoundaryAbsent)
        => /\ prompt_history = generate_history(fetched, NoneId)
           /\ discard_log = generate_history_log(fetched, NoneId)

\* the boundary is a message older than the fetched window, and the history
\* runs to the oldest fetched message
C38_Witness ==
    /\ Generated
    /\ Truthy(repeated_id)
    /\ Len(fetched) >= 2
    /\ \A j \in DOMAIN fetched : fetched[j].id > repeated_id
    /\ ~Skipped(fetched[Len(fetched)])
    /\ prompt_history = Joined(Included(Len(fetched)))

====
